---- MODULE Spec2Model ----
(***************************************************************************)
(* Model of the Zakat ledger of src/blockchain.py: Transaction, Block and  *)
(* ZakatBlockchain.                                                        *)
(*                                                                         *)
(* Money.  The source computes with floats; the model computes with exact  *)
(* rationals in fixed point.  One coin is Scale units, Scale a power of 40 *)
(* large enough that every levy (balance * 0.025 = balance / 40) that can  *)
(* be computed within the bounds is a whole number of units.               *)
(*                                                                         *)
(* Hashing.  SHA-256 is modelled as an ideal hash: a digest is the pair of *)
(* its first `difficulty` hex characters (a number below 16^difficulty,    *)
(* zero when they are all '0') and the preimage itself, so that two        *)
(* digests are equal exactly when the hashed strings are equal.            *)
(*                                                                         *)
(* Time.  datetime.now() is an input: `clock` is the last instant read; a  *)
(* read returns an instant of Instants that is not before it.              *)
(***************************************************************************)
EXTENDS Integers, Sequences, FiniteSets, TLC

VARIABLES creator_roll_number, chain, pending_transactions, balances, nodes,
          clock, started, last, tamper, mining, calls

vars == <<creator_roll_number, chain, pending_transactions, balances, nodes,
          clock, started, last, tamper, mining, calls>>

ledger == <<creator_roll_number, chain, pending_transactions, balances, nodes>>

-----------------------------------------------------------------------------
(* Bounds of the model *)

MaxChain == 3

MaxEntries == 2

(* Program constants *)

difficulty == 2

RateDivisor == 40

RewardCoins == 10

GenesisCoins == 200

RECURSIVE Pow(_, _)
Pow(b, n) == IF n = 0 THEN 1 ELSE b * Pow(b, n - 1)

Scale == Pow(RateDivisor, MaxChain)

Coins(n) == n * Scale

mining_reward == Coins(RewardCoins)

HexSpace == Pow(16, difficulty)

(* Inputs *)

Creators == {"N1"}

RollNumbers == {"N1", "N2"}

ZakatFund == "Zakat_Fund"

Addresses == RollNumbers \cup {ZakatFund}

ZakatReceivers == {ZakatFund, "N2"}

TransferReceivers == {"N2"}

GiftSenders == {"N2"}

GiftReceivers == {"N1"}

GiftAmounts == {Coins(150)}

Instants == {0}

CreatorBalances == {Coins(200)}

NodeBalances == {Coins(100)}

Amounts == {Coins(-10), Coins(150)}

(* Another creator identifier *)
TwinCreator == "N0"

(* Starting balances other than the default of the constructor *)
StartingBalances == {Coins(200), Coins(500)}

(* Transactions that callers build themselves and hand to add_transaction *)
SyntheticSenders == {"System", "Genesis"}

SubmittedAmounts == {Coins(-10), Coins(5)}

(* The values datetime.now() can return to a read made when the last read
   returned t. *)
Now(t) == {u \in Instants : t <= u}

-----------------------------------------------------------------------------
(* Transaction *)

Transaction(sender, receiver, amount, zakat_amount, transaction_type, timestamp) ==
    [sender |-> sender, receiver |-> receiver, amount |-> amount,
     zakat_amount |-> zakat_amount, transaction_type |-> transaction_type,
     timestamp |-> timestamp]

(* str(tx.to_dict()): the fields in the order of the dictionary *)
tx_to_dict(tx) ==
    <<tx.sender, tx.receiver, tx.amount, tx.zakat_amount, tx.transaction_type,
      tx.timestamp>>

-----------------------------------------------------------------------------
(* Block *)

RECURSIVE SumSeq(_)
SumSeq(s) == IF s = <<>> THEN 0 ELSE Head(s) + SumSeq(Tail(s))

(* The first `difficulty` hex characters of the digest of a block string, as
   a number: a fixed function of the hashed fields that runs through every
   value as the nonce grows. *)
hex_prefix(block_string) ==
    LET salt == (block_string[2] + Len(block_string[3]) + block_string[5]
                 + SumSeq([i \in 1 .. Len(block_string[3]) |->
                              block_string[3][i][3] \div Scale])) % 4
    IN  (HexSpace - salt + block_string[6]) % HexSpace

(* hashlib.sha256(block_string.encode()).hexdigest() *)
sha256_hexdigest(block_string) ==
    [head |-> hex_prefix(block_string), of |-> block_string]

(* Mutant of calculate_hash: the seed key is not hashed. *)
calculate_hash_unseeded(b) ==
    sha256_hexdigest(<<"", b.index,
                [i \in 1 .. Len(b.transactions) |-> tx_to_dict(b.transactions[i])],
                b.previous_hash, b.timestamp, b.nonce>>)

(* Mutant of calculate_hash: the timestamp is not hashed. *)
calculate_hash_untimed(b) ==
    sha256_hexdigest(<<b.roll_number, b.index,
                [i \in 1 .. Len(b.transactions) |-> tx_to_dict(b.transactions[i])],
                b.previous_hash, 0, b.nonce>>)

calculate_hash(b) ==
    sha256_hexdigest(<<b.roll_number, b.index,
                [i \in 1 .. Len(b.transactions) |-> tx_to_dict(b.transactions[i])],
                b.previous_hash, b.timestamp, b.nonce>>)

(* Block.__init__ *)
Block(index, transactions, previous_hash, roll_number, timestamp) ==
    LET b == [index |-> index, transactions |-> transactions,
              previous_hash |-> previous_hash, roll_number |-> roll_number,
              timestamp |-> timestamp, nonce |-> 0]
    IN  [index |-> index, transactions |-> transactions,
         previous_hash |-> previous_hash, roll_number |-> roll_number,
         timestamp |-> timestamp, nonce |-> 0, hash |-> calculate_hash(b)]

(* Mutant of mine_block: the hash is taken before the nonce is incremented. *)
RECURSIVE mine_block_stale_hash(_)
mine_block_stale_hash(b) ==
    IF b.hash.head = 0
    THEN b
    ELSE mine_block_stale_hash([b EXCEPT !.hash = calculate_hash(b),
                                         !.nonce = @ + 1])

RECURSIVE mine_block(_)
mine_block(b) ==
    IF b.hash.head = 0
    THEN b
    ELSE LET n == [b EXCEPT !.nonce = @ + 1]
         IN  mine_block([n EXCEPT !.hash = calculate_hash(n)])

-----------------------------------------------------------------------------
(* ZakatBlockchain: queries *)

balance_of(bals, address) ==
    IF address \in DOMAIN bals THEN bals[address] ELSE 0

get_balance(address) == balance_of(balances, address)

calculate_zakat(balance) == balance \div RateDivisor

get_latest_block == chain[Len(chain)]

(* Mutant of validate_transaction: the levy is left out of the total. *)
validate_transaction_amount_only(transaction) ==
    ~(get_balance(transaction.sender) < transaction.amount)

(* Mutant of validate_transaction: what the sender has pending is reserved. *)
validate_transaction_reserving(transaction) ==
    LET reserved ==
            SumSeq([i \in 1 .. Len(pending_transactions) |->
                       IF pending_transactions[i].sender = transaction.sender
                       THEN pending_transactions[i].amount
                            + pending_transactions[i].zakat_amount
                       ELSE 0])
        total_amount == transaction.amount + transaction.zakat_amount
    IN  ~(get_balance(transaction.sender) - reserved < total_amount)

(* Mutant of validate_transaction: the sender's balance is not looked at. *)
validate_transaction_accepting(transaction) ==
    transaction.amount = transaction.amount

validate_transaction(transaction) ==
    LET sender_balance == get_balance(transaction.sender)
        total_amount == transaction.amount + transaction.zakat_amount
    IN  ~(sender_balance < total_amount)

(* Mutant of validate_chain: the stored hash is not recomputed. *)
validate_chain_links_only ==
    \A i \in 2 .. Len(chain) : chain[i].previous_hash = chain[i - 1].hash

(* Mutant of validate_chain: the stored hash of the genesis block is
   recomputed too. *)
validate_chain_from_genesis ==
    /\ chain[1].hash = calculate_hash(chain[1])
    /\ \A i \in 2 .. Len(chain) :
           /\ chain[i].hash = calculate_hash(chain[i])
           /\ chain[i].previous_hash = chain[i - 1].hash

validate_chain ==
    \A i \in 2 .. Len(chain) :
        /\ chain[i].hash = calculate_hash(chain[i])
        /\ chain[i].previous_hash = chain[i - 1].hash

-----------------------------------------------------------------------------
(* ZakatBlockchain: history and statistics *)

(* tx_dict with block_index and block_hash added: lines 431-434 *)
history_entry(transaction, block) ==
    [sender |-> transaction.sender, receiver |-> transaction.receiver,
     amount |-> transaction.amount, zakat_amount |-> transaction.zakat_amount,
     transaction_type |-> transaction.transaction_type,
     timestamp |-> transaction.timestamp,
     block_index |-> block.index, block_hash |-> block.hash]

(* all_transactions after the first n blocks of the outer loop *)
RECURSIVE all_transactions(_, _)
all_transactions(ch, n) ==
    IF n = 0
    THEN <<>>
    ELSE all_transactions(ch, n - 1)
         \o [j \in 1 .. Len(ch[n].transactions) |->
                history_entry(ch[n].transactions[j], ch[n])]

(* Mutant of get_transaction_history: the pending transactions are listed
   after the sealed ones. *)
get_transaction_history_with_pending ==
    all_transactions(chain, Len(chain))
    \o [j \in 1 .. Len(pending_transactions) |->
           history_entry(pending_transactions[j], get_latest_block)]

get_transaction_history == all_transactions(chain, Len(chain))

(* The two accumulators of get_blockchain_stats after the first n
   transactions of a block, and after the first n blocks *)
RECURSIVE stats_of_transactions(_, _, _)
stats_of_transactions(acc, transactions, n) ==
    IF n = 0
    THEN acc
    ELSE LET before == stats_of_transactions(acc, transactions, n - 1)
         IN  [total_zakat_collected |->
                  before.total_zakat_collected + transactions[n].zakat_amount,
              total_transactions |-> before.total_transactions + 1]

RECURSIVE stats_of_blocks(_, _)
stats_of_blocks(ch, n) ==
    IF n = 0
    THEN [total_zakat_collected |-> 0, total_transactions |-> 0]
    ELSE stats_of_transactions(stats_of_blocks(ch, n - 1), ch[n].transactions,
                               Len(ch[n].transactions))

(* Mutant of get_blockchain_stats: the pending transactions are counted. *)
get_blockchain_stats_with_pending ==
    LET totals == stats_of_transactions(stats_of_blocks(chain, Len(chain)),
                                        pending_transactions,
                                        Len(pending_transactions))
    IN  [total_blocks |-> Len(chain),
         total_transactions |-> totals.total_transactions,
         total_zakat_collected |-> totals.total_zakat_collected,
         chain_valid |-> validate_chain,
         balances |-> balances,
         creator_roll_number |-> creator_roll_number,
         total_nodes |-> Cardinality(DOMAIN nodes),
         active_nodes |-> Cardinality({n \in DOMAIN nodes : nodes[n].is_active}),
         nodes_info |-> nodes]

get_blockchain_stats ==
    LET totals == stats_of_blocks(chain, Len(chain))
    IN  [total_blocks |-> Len(chain),
         total_transactions |-> totals.total_transactions,
         total_zakat_collected |-> totals.total_zakat_collected,
         chain_valid |-> validate_chain,
         balances |-> balances,
         creator_roll_number |-> creator_roll_number,
         total_nodes |-> Cardinality(DOMAIN nodes),
         active_nodes |-> Cardinality({n \in DOMAIN nodes : nodes[n].is_active}),
         nodes_info |-> nodes]

-----------------------------------------------------------------------------
(* ZakatBlockchain: registry and balance application.  A ledger state under
   construction is the record [balances, nodes]. *)

node_record(roll_number, initial_balance, joined_at) ==
    [roll_number |-> roll_number, balance |-> initial_balance,
     joined_at |-> joined_at, transactions_count |-> 0,
     total_zakat_paid |-> 0, total_zakat_received |-> 0, is_active |-> TRUE]

update_node_stats(st, roll_number, zakat_paid, zakat_received) ==
    IF roll_number \in DOMAIN st.nodes
    THEN [st EXCEPT !.nodes[roll_number] =
             [@ EXCEPT !.transactions_count = @ + 1,
                       !.total_zakat_paid = @ + zakat_paid,
                       !.total_zakat_received = @ + zakat_received,
                       !.balance = balance_of(st.balances, roll_number)]]
    ELSE st

(* Mutant of deduct_from_sender: the levy is not deducted. *)
deduct_from_sender_amount_only(st, transaction) ==
    IF transaction.sender # "System" /\ transaction.sender # "Genesis"
    THEN update_node_stats(
             [st EXCEPT !.balances =
                 (transaction.sender :>
                     (balance_of(st.balances, transaction.sender)
                      - transaction.amount)) @@ st.balances],
             transaction.sender, transaction.zakat_amount, 0)
    ELSE st

(* Mutant of deduct_from_sender: the synthetic senders are debited too. *)
deduct_from_sender_everyone(st, transaction) ==
    LET total_deduction == transaction.amount + transaction.zakat_amount
        debited == [st EXCEPT !.balances =
                       (transaction.sender :>
                           (balance_of(st.balances, transaction.sender)
                            - total_deduction)) @@ st.balances]
    IN  update_node_stats(debited, transaction.sender,
                          transaction.zakat_amount, 0)

(* The debit of one transaction: lines 315-323 *)
deduct_from_sender(st, transaction) ==
    IF transaction.sender # "System" /\ transaction.sender # "Genesis"
    THEN LET total_deduction == transaction.amount + transaction.zakat_amount
             debited == [st EXCEPT !.balances =
                            (transaction.sender :>
                                (balance_of(st.balances, transaction.sender)
                                 - total_deduction)) @@ st.balances]
         IN  update_node_stats(debited, transaction.sender,
                               transaction.zakat_amount, 0)
    ELSE st

(* Mutant of add_to_receiver: the receiver is credited the levy as well. *)
add_to_receiver_with_levy(st, transaction) ==
    LET credited == [st EXCEPT !.balances =
                        (transaction.receiver :>
                            (balance_of(st.balances, transaction.receiver)
                             + transaction.amount + transaction.zakat_amount))
                        @@ st.balances]
    IN  IF transaction.transaction_type = "zakat" /\ transaction.receiver # ZakatFund
        THEN update_node_stats(credited, transaction.receiver, 0,
                               transaction.zakat_amount)
        ELSE credited

(* The credit of one transaction: lines 326-333 *)
add_to_receiver(st, transaction) ==
    LET credited == [st EXCEPT !.balances =
                        (transaction.receiver :>
                            (balance_of(st.balances, transaction.receiver)
                             + transaction.amount)) @@ st.balances]
    IN  IF transaction.transaction_type = "zakat" /\ transaction.receiver # ZakatFund
        THEN update_node_stats(credited, transaction.receiver, 0,
                               transaction.zakat_amount)
        ELSE credited

(* The loop of update_balances: the state after each transaction is computed
   once and handed on as a value. *)
RECURSIVE apply_transactions(_, _)
apply_transactions(st, transactions) ==
    IF transactions = <<>>
    THEN st
    ELSE CHOOSE after \in
             {apply_transactions(applied, Tail(transactions)) :
                 applied \in {add_to_receiver(
                                  deduct_from_sender(st, Head(transactions)),
                                  Head(transactions))}} : TRUE

update_balances(st, block) == apply_transactions(st, block.transactions)

-----------------------------------------------------------------------------
(* ZakatBlockchain: construction *)

ZeroHash == [head |-> 0, of |-> <<"0">>]

genesis_block(creator, t_tx, t_block) ==
    Block(0,
          <<Transaction("Genesis", creator, Coins(GenesisCoins), 0, "genesis", t_tx)>>,
          ZeroHash, creator, t_block)

NoTamper == [active |-> FALSE, index |-> 0, original |-> ZeroHash, sealed |-> FALSE]

(* No call of mine_pending_transactions is under way. *)
NotMining ==
    [active |-> FALSE, mining_address |-> "", steps |-> 0,
     block |-> Block(0, <<>>, ZeroHash, "", 0)]

(* The callers that may be inside mine_pending_transactions at once *)
Callers == {1, 2}

(* A caller that is not inside mine_pending_transactions.  Of a caller that
   is: where it stands (pc), its argument, its local variable block until
   the block is appended and the position of the block in the chain after
   that (at), whether block.transactions is still the list object that
   self.pending_transactions names (aliased), and how many transactions the
   loop of update_balances has passed (cursor). *)
IdleCall ==
    [pc |-> "idle", mining_address |-> "", block |-> Block(0, <<>>, ZeroHash, "", 0),
     aliased |-> FALSE, at |-> 0, cursor |-> 0]

NoCalls == [c \in Callers |-> IdleCall]

(* Mutant of ZakatBlockchain: the genesis transaction is applied to the
   creator's balance. *)
ZakatBlockchain_genesis_applied(creator, initial_balance) ==
    \E t_tx \in Now(0) :
    \E t_block \in Now(t_tx) :
        /\ creator_roll_number = creator
        /\ pending_transactions = <<>>
        /\ balances = (creator :> (initial_balance + Coins(GenesisCoins)))
        /\ nodes = (creator :> node_record(creator, initial_balance, 0))
        /\ chain = <<genesis_block(creator, t_tx, t_block)>>
        /\ clock = t_block
        /\ started = (creator :> initial_balance)
        /\ last = [op |-> "init", ok |-> TRUE]
        /\ tamper = NoTamper
        /\ mining = NotMining
        /\ calls = NoCalls

(* ZakatBlockchain.__init__ *)
ZakatBlockchain(creator, initial_balance) ==
    \E t_tx \in Now(0) :
    \E t_block \in Now(t_tx) :
        /\ creator_roll_number = creator
        /\ pending_transactions = <<>>
        /\ balances = (creator :> initial_balance)
        /\ nodes = (creator :> node_record(creator, initial_balance, 0))
        /\ chain = <<genesis_block(creator, t_tx, t_block)>>
        /\ clock = t_block
        /\ started = (creator :> initial_balance)
        /\ last = [op |-> "init", ok |-> TRUE]
        /\ tamper = NoTamper
        /\ mining = NotMining
        /\ calls = NoCalls

Init ==
    \E creator \in Creators, initial_balance \in CreatorBalances :
        ZakatBlockchain(creator, initial_balance)

-----------------------------------------------------------------------------
(* ZakatBlockchain: operations *)

(* Mutant of add_node: a duplicate registration resets the balance. *)
add_node_duplicate_resets(roll_number, initial_balance) ==
    /\ IF roll_number \in DOMAIN nodes
       THEN /\ last' = [op |-> "add_node", ok |-> FALSE]
            /\ balances' = (roll_number :> initial_balance) @@ balances
            /\ UNCHANGED <<nodes, started, clock>>
       ELSE \E t \in Now(clock) :
            /\ nodes' = (roll_number :> node_record(roll_number, initial_balance, t))
                        @@ nodes
            /\ balances' = IF roll_number \notin DOMAIN balances
                           THEN (roll_number :> initial_balance) @@ balances
                           ELSE balances
            /\ started' = (roll_number :> initial_balance) @@ started
            /\ clock' = t
            /\ last' = [op |-> "add_node", ok |-> TRUE]
    /\ UNCHANGED <<creator_roll_number, calls, mining, chain, pending_transactions, tamper>>

(* Mutant of add_node: a successful registration sets the balance. *)
add_node_sets_balance(roll_number, initial_balance) ==
    /\ IF roll_number \in DOMAIN nodes
       THEN /\ last' = [op |-> "add_node", ok |-> FALSE]
            /\ UNCHANGED <<nodes, balances, started, clock>>
       ELSE \E t \in Now(clock) :
            /\ nodes' = (roll_number :> node_record(roll_number, initial_balance, t))
                        @@ nodes
            /\ balances' = (roll_number :> initial_balance) @@ balances
            /\ started' = (roll_number :> initial_balance) @@ started
            /\ clock' = t
            /\ last' = [op |-> "add_node", ok |-> TRUE]
    /\ UNCHANGED <<creator_roll_number, calls, mining, chain, pending_transactions, tamper>>

add_node_credits_existing(roll_number, initial_balance) ==
    /\ IF roll_number \in DOMAIN nodes
       THEN /\ last' = [op |-> "add_node", ok |-> FALSE]
            /\ UNCHANGED <<nodes, balances, started, clock>>
       ELSE \E t \in Now(clock) :
            /\ nodes' = (roll_number :> node_record(roll_number, initial_balance, t))
                        @@ nodes
            /\ balances' = IF roll_number \notin DOMAIN balances
                           THEN (roll_number :> initial_balance) @@ balances
                           ELSE [balances EXCEPT ![roll_number] = @ + initial_balance]
            /\ started' = (roll_number :> initial_balance) @@ started
            /\ clock' = t
            /\ last' = [op |-> "add_node", ok |-> TRUE]
    /\ UNCHANGED <<creator_roll_number, calls, mining, chain, pending_transactions, tamper>>

add_node(roll_number, initial_balance) ==
    /\ IF roll_number \in DOMAIN nodes
       THEN /\ last' = [op |-> "add_node", ok |-> FALSE]
            /\ UNCHANGED <<nodes, balances, started, clock>>
       ELSE \E t \in Now(clock) :
            /\ nodes' = (roll_number :> node_record(roll_number, initial_balance, t))
                        @@ nodes
            /\ balances' = IF roll_number \notin DOMAIN balances
                           THEN (roll_number :> initial_balance) @@ balances
                           ELSE balances
            /\ started' = (roll_number :> initial_balance) @@ started
            /\ clock' = t
            /\ last' = [op |-> "add_node", ok |-> TRUE]
    /\ UNCHANGED <<creator_roll_number, calls, mining, chain, pending_transactions, tamper>>

(* The number of transactions accepted by add_transaction so far: those
   pending and those sealed (every mined block holds one reward besides). *)
entries_created ==
    Len(pending_transactions)
    + SumSeq([i \in 1 .. Len(chain) |-> Len(chain[i].transactions) - 1])

(* Mutant of add_transaction: nothing is accepted over an invalid chain. *)
add_transaction_checks_chain(transaction, op) ==
    /\ (validate_transaction(transaction) /\ validate_chain) =>
           entries_created < MaxEntries
    /\ IF ~(validate_transaction(transaction) /\ validate_chain)
       THEN /\ last' = [op |-> op, ok |-> FALSE]
            /\ UNCHANGED pending_transactions
       ELSE /\ pending_transactions' = Append(pending_transactions, transaction)
            /\ last' = [op |-> op, ok |-> TRUE]

(* Mutant of add_transaction: the transaction is put in front of those
   pending. *)
add_transaction_in_front(transaction, op) ==
    /\ validate_transaction(transaction) =>
           entries_created < MaxEntries
    /\ IF ~validate_transaction(transaction)
       THEN /\ last' = [op |-> op, ok |-> FALSE]
            /\ UNCHANGED pending_transactions
       ELSE /\ pending_transactions' = <<transaction>> \o pending_transactions
            /\ last' = [op |-> op, ok |-> TRUE]

(* add_transaction, called by the operation op *)
add_transaction(transaction, op) ==
    /\ validate_transaction(transaction) =>
           entries_created < MaxEntries
    /\ IF ~validate_transaction(transaction)
       THEN /\ last' = [op |-> op, ok |-> FALSE]
            /\ UNCHANGED pending_transactions
       ELSE /\ pending_transactions' = Append(pending_transactions, transaction)
            /\ last' = [op |-> op, ok |-> TRUE]

(* Mutant of create_zakat_transaction: a levy of zero is enqueued too. *)
create_zakat_transaction_zero_levy(from_address, to_address) ==
    LET current_balance == get_balance(from_address)
        zakat_amount == calculate_zakat(current_balance)
    IN  /\ IF zakat_amount >= 0
           THEN \E t \in Now(clock) :
                /\ add_transaction(
                       Transaction(from_address, to_address, 0, zakat_amount,
                                   "zakat", t), "zakat")
                /\ clock' = t
           ELSE /\ last' = [op |-> "zakat", ok |-> FALSE]
                /\ UNCHANGED <<pending_transactions, clock>>
        /\ UNCHANGED <<creator_roll_number, calls, mining, chain, balances, nodes, started, tamper>>

create_zakat_transaction(from_address, to_address) ==
    LET current_balance == get_balance(from_address)
        zakat_amount == calculate_zakat(current_balance)
    IN  /\ IF zakat_amount > 0
           THEN \E t \in Now(clock) :
                /\ add_transaction(
                       Transaction(from_address, to_address, 0, zakat_amount,
                                   "zakat", t), "zakat")
                /\ clock' = t
           ELSE /\ last' = [op |-> "zakat", ok |-> FALSE]
                /\ UNCHANGED <<pending_transactions, clock>>
        /\ UNCHANGED <<creator_roll_number, calls, mining, chain, balances, nodes, started, tamper>>

(* Mutant of create_transfer_transaction: the levy is taken on the amount. *)
create_transfer_transaction_levy_on_amount(from_address, to_address, amount) ==
    /\ \E t \in Now(clock) :
        /\ add_transaction(
               Transaction(from_address, to_address, amount,
                           calculate_zakat(amount), "transfer", t), "transfer")
        /\ clock' = t
    /\ UNCHANGED <<creator_roll_number, calls, mining, chain, balances, nodes, started, tamper>>

create_transfer_transaction(from_address, to_address, amount) ==
    LET current_balance == get_balance(from_address)
        zakat_amount == calculate_zakat(current_balance)
    IN  /\ \E t \in Now(clock) :
            /\ add_transaction(
                   Transaction(from_address, to_address, amount, zakat_amount,
                               "transfer", t), "transfer")
            /\ clock' = t
        /\ UNCHANGED <<creator_roll_number, calls, mining, chain, balances, nodes, started, tamper>>

(* Mutant of gift_transaction: the gift carries the levy of a transfer. *)
gift_transaction_with_levy(sender, receiver, amount) ==
    /\ \E t \in Now(clock) :
        /\ add_transaction(Transaction(sender, receiver, amount,
                                       calculate_zakat(get_balance(sender)),
                                       "gift", t), "gift")
        /\ clock' = t
    /\ UNCHANGED <<creator_roll_number, calls, mining, chain, balances, nodes, started, tamper>>

(* The gift path: a Transaction with zakat_amount 0.0 handed to
   add_transaction by the caller *)
gift_transaction(sender, receiver, amount) ==
    /\ \E t \in Now(clock) :
        /\ add_transaction(Transaction(sender, receiver, amount, 0, "gift", t), "gift")
        /\ clock' = t
    /\ UNCHANGED <<creator_roll_number, calls, mining, chain, balances, nodes, started, tamper>>

(* Mutants of mined_block: the previous hash is the genesis block's; the
   index is one too far; the block is not mined; the seed key is the miner's. *)
mined_block_genesis_link(ch, pending, creator, mining_address, t_tx, t_block) ==
    mine_block(Block(Len(ch),
                     Append(pending, Transaction("System", mining_address,
                                                 mining_reward, 0, "mining_reward", t_tx)),
                     ch[1].hash, creator, t_block))

mined_block_index_off(ch, pending, creator, mining_address, t_tx, t_block) ==
    mine_block(Block(Len(ch) + 1,
                     Append(pending, Transaction("System", mining_address,
                                                 mining_reward, 0, "mining_reward", t_tx)),
                     ch[Len(ch)].hash, creator, t_block))

mined_block_not_mined(ch, pending, creator, mining_address, t_tx, t_block) ==
    Block(Len(ch),
          Append(pending, Transaction("System", mining_address,
                                      mining_reward, 0, "mining_reward", t_tx)),
          ch[Len(ch)].hash, creator, t_block)

mined_block_miner_seed(ch, pending, creator, mining_address, t_tx, t_block) ==
    mine_block(Block(Len(ch),
                     Append(pending, Transaction("System", mining_address,
                                                 mining_reward, 0, "mining_reward", t_tx)),
                     ch[Len(ch)].hash, mining_address, t_block))

(* Mutant of mined_block: the reward is the first transaction of the block. *)
mined_block_reward_first(ch, pending, creator, mining_address, t_tx, t_block) ==
    mine_block(Block(Len(ch),
                     <<Transaction("System", mining_address,
                                   mining_reward, 0, "mining_reward", t_tx)>> \o pending,
                     ch[Len(ch)].hash, creator, t_block))

(* The block mine_pending_transactions appends: lines 276-295 *)
mined_block(ch, pending, creator, mining_address, t_tx, t_block) ==
    LET reward_transaction ==
            Transaction("System", mining_address, mining_reward, 0,
                        "mining_reward", t_tx)
    IN  mine_block(Block(Len(ch), Append(pending, reward_transaction),
                         ch[Len(ch)].hash, creator, t_block))

(* Mutant of mine_pending_transactions: once the chain holds two blocks, the
   new block takes the place of the latest one. *)
mine_pending_transactions_replacing(mining_address) ==
    /\ Len(chain) < MaxChain
    /\ \E t_tx \in Now(clock) :
       \E t_block \in Now(t_tx) :
       LET block == mined_block(chain, pending_transactions, creator_roll_number,
                                mining_address, t_tx, t_block)
           st == update_balances([balances |-> balances, nodes |-> nodes], block)
       IN  /\ chain' = IF Len(chain) >= 2
                       THEN Append(SubSeq(chain, 1, Len(chain) - 1), block)
                       ELSE Append(chain, block)
           /\ balances' = st.balances
           /\ nodes' = st.nodes
           /\ pending_transactions' = <<>>
           /\ clock' = t_block
    /\ last' = [op |-> "mine", ok |-> TRUE]
    /\ tamper' = IF tamper.active THEN [tamper EXCEPT !.sealed = TRUE] ELSE tamper
    /\ UNCHANGED <<creator_roll_number, calls, mining, started>>

mine_pending_transactions(mining_address) ==
    /\ Len(chain) < MaxChain
    /\ \E t_tx \in Now(clock) :
       \E t_block \in Now(t_tx) :
       LET block == mined_block(chain, pending_transactions, creator_roll_number,
                                mining_address, t_tx, t_block)
           st == update_balances([balances |-> balances, nodes |-> nodes], block)
       IN  /\ chain' = Append(chain, block)
           /\ balances' = st.balances
           /\ nodes' = st.nodes
           /\ pending_transactions' = <<>>
           /\ clock' = t_block
    /\ last' = [op |-> "mine", ok |-> TRUE]
    /\ tamper' = IF tamper.active THEN [tamper EXCEPT !.sealed = TRUE] ELSE tamper
    /\ UNCHANGED <<creator_roll_number, calls, mining, started>>

-----------------------------------------------------------------------------
(* Specification of the public operations *)

AddNode == \E r \in RollNumbers, b \in NodeBalances : add_node(r, b)

CreateZakat ==
    \E f \in RollNumbers, t \in ZakatReceivers : create_zakat_transaction(f, t)

CreateTransfer ==
    \E f \in RollNumbers, t \in TransferReceivers, a \in Amounts :
        create_transfer_transaction(f, t, a)

CreateGift ==
    \E f \in GiftSenders, t \in GiftReceivers, a \in GiftAmounts :
        gift_transaction(f, t, a)

Mine == \E m \in RollNumbers : mine_pending_transactions(m)

Next == AddNode \/ CreateZakat \/ CreateTransfer \/ CreateGift \/ Mine

Spec == Init /\ [][Next]_vars

-----------------------------------------------------------------------------
(* Direct tampering with a stored hash, as the tests do it:
   blockchain.chain[k].hash = "tampered_hash", later written back.  `tamper`
   remembers the block last overwritten, its original hash, whether the hash
   is still overwritten (active) and whether a block was sealed while it was. *)

TamperedHash == [head |-> HexSpace - 1, of |-> <<"tampered_hash">>]

tamper_hash(k, value) ==
    /\ ~tamper.active /\ ~tamper.sealed
    /\ k \in 1 .. Len(chain) - 1
    /\ value # chain[k + 1].hash
    /\ chain' = [chain EXCEPT ![k + 1].hash = value]
    /\ tamper' = [active |-> TRUE, index |-> k, original |-> chain[k + 1].hash,
                  sealed |-> FALSE]
    /\ last' = [op |-> "tamper", ok |-> TRUE]
    /\ UNCHANGED <<creator_roll_number, calls, mining, pending_transactions, balances, nodes,
                   clock, started>>

restore_hash ==
    /\ tamper.active
    /\ chain' = [chain EXCEPT ![tamper.index + 1].hash = tamper.original]
    /\ tamper' = [tamper EXCEPT !.active = FALSE]
    /\ last' = [op |-> "restore", ok |-> TRUE]
    /\ UNCHANGED <<creator_roll_number, calls, mining, pending_transactions, balances, nodes,
                   clock, started>>

Tamper ==
    \E k \in 1 .. MaxChain - 1 :
    \E value \in {TamperedHash, chain[1].hash} : tamper_hash(k, value)

Restore == restore_hash

(* The ledger under tampering, as in test_chain_validation: transfers and
   seals, and the stored hash of a block overwritten and written back. *)
NextTamper == CreateTransfer \/ Mine \/ Tamper \/ Restore

SpecTamper == Init /\ [][NextTamper]_vars

-----------------------------------------------------------------------------
(* The ledger used on while the stored hash of a block is overwritten: every
   operation that makes transactions, and seals. *)

Corrupt == \E k \in 1 .. MaxChain - 1 : tamper_hash(k, TamperedHash)

NextAdvisory ==
    CreateZakat \/ CreateTransfer \/ CreateGift \/ Mine \/ Corrupt

SpecAdvisory == Init /\ [][NextAdvisory]_vars

-----------------------------------------------------------------------------
(* Direct tampering with a hashed field of a block, its stored hash left as
   it is: the amount of its first transaction, its previous hash, its nonce,
   its timestamp, its seed key or its index is overwritten with another
   value.  Nothing is done to the ledger afterwards. *)

HashedFields ==
    {"transactions", "previous_hash", "nonce", "timestamp", "roll_number", "index"}

tampered_block(b, field) ==
    CASE field = "transactions" ->
             [b EXCEPT !.transactions[1].amount = @ + Coins(1)]
      [] field = "previous_hash" -> [b EXCEPT !.previous_hash = TamperedHash]
      [] field = "nonce" -> [b EXCEPT !.nonce = @ + 1]
      [] field = "timestamp" -> [b EXCEPT !.timestamp = @ + 1]
      [] field = "roll_number" -> [b EXCEPT !.roll_number = TwinCreator]
      [] field = "index" -> [b EXCEPT !.index = @ + 1]

tamper_field(k, field) ==
    /\ ~tamper.active /\ ~tamper.sealed
    /\ k \in 1 .. Len(chain) - 1
    /\ chain' = [chain EXCEPT ![k + 1] = tampered_block(@, field)]
    /\ tamper' = [active |-> TRUE, index |-> k, original |-> chain[k + 1].hash,
                  sealed |-> FALSE]
    /\ last' = [op |-> field, ok |-> TRUE]
    /\ UNCHANGED <<creator_roll_number, calls, mining, pending_transactions, balances,
                   nodes, clock, started>>

TamperField ==
    \E k \in 1 .. MaxChain - 1 : \E field \in HashedFields : tamper_field(k, field)

TransferUntampered == ~tamper.active /\ CreateTransfer

MineUntampered == ~tamper.active /\ Mine

NextField == TransferUntampered \/ MineUntampered \/ TamperField

SpecField == Init /\ [][NextField]_vars

-----------------------------------------------------------------------------
(* Direct tampering with any block of the chain, the genesis block included:
   one of its hashed fields, or its stored hash, is overwritten.  Nothing is
   done to the ledger afterwards. *)

StoredFields == HashedFields \cup {"hash"}

tamper_block(k, field) ==
    /\ ~tamper.active /\ ~tamper.sealed
    /\ k \in 0 .. Len(chain) - 1
    /\ chain' = [chain EXCEPT ![k + 1] =
                    IF field = "hash"
                    THEN [@ EXCEPT !.hash = TamperedHash]
                    ELSE tampered_block(@, field)]
    /\ tamper' = [active |-> TRUE, index |-> k, original |-> chain[k + 1].hash,
                  sealed |-> FALSE]
    /\ last' = [op |-> field, ok |-> TRUE]
    /\ UNCHANGED <<creator_roll_number, calls, mining, pending_transactions, balances,
                   nodes, clock, started>>

TamperBlock ==
    \E k \in 0 .. MaxChain - 1 : \E field \in StoredFields : tamper_block(k, field)

NextBlocks == TransferUntampered \/ MineUntampered \/ TamperBlock

SpecBlocks == Init /\ [][NextBlocks]_vars

-----------------------------------------------------------------------------
(* The ledger constructed with any starting balance, under registrations,
   transfers and seals. *)

InitOpen ==
    \E creator \in Creators, initial_balance \in StartingBalances :
        ZakatBlockchain(creator, initial_balance)

NextOpen == AddNode \/ CreateTransfer \/ Mine

SpecOpen == InitOpen /\ [][NextOpen]_vars

-----------------------------------------------------------------------------
(* mine_pending_transactions statement by statement: the reward is appended
   to the pending set and the block constructed (lines 276-292), the loop of
   mine_block is run one iteration at a time (lines 108-110), and the mined
   block is appended, the balances updated and the pending set cleared
   (lines 295-304).  `mining` holds the block under construction and the
   number of iterations made.  The program has one thread: no other
   operation starts while the call is running. *)

begin_mining(mining_address) ==
    /\ ~mining.active
    /\ Len(chain) < MaxChain
    /\ \E t_tx \in Now(clock) :
       \E t_block \in Now(t_tx) :
       LET reward_transaction ==
               Transaction("System", mining_address, mining_reward, 0,
                           "mining_reward", t_tx)
       IN  /\ pending_transactions' = Append(pending_transactions, reward_transaction)
           /\ mining' = [active |-> TRUE, mining_address |-> mining_address,
                         steps |-> 0,
                         block |-> Block(Len(chain), pending_transactions',
                                         get_latest_block.hash,
                                         creator_roll_number, t_block)]
           /\ clock' = t_block
    /\ last' = [op |-> "mine_begin", ok |-> TRUE]
    /\ UNCHANGED <<creator_roll_number, calls, chain, balances, nodes, started, tamper>>

(* Mutant of mine_step: the nonce is incremented by two. *)
mine_step_by_two ==
    /\ mining.active
    /\ mining.block.hash.head # 0
    /\ LET n == [mining.block EXCEPT !.nonce = @ + 2]
       IN  mining' = [mining EXCEPT !.block = [n EXCEPT !.hash = calculate_hash(n)],
                                    !.steps = @ + 1]
    /\ last' = [op |-> "mine_step", ok |-> TRUE]
    /\ UNCHANGED <<creator_roll_number, calls, chain, pending_transactions, balances,
                   nodes, clock, started, tamper>>

(* One iteration of the loop of mine_block *)
mine_step ==
    /\ mining.active
    /\ mining.block.hash.head # 0
    /\ LET n == [mining.block EXCEPT !.nonce = @ + 1]
       IN  mining' = [mining EXCEPT !.block = [n EXCEPT !.hash = calculate_hash(n)],
                                    !.steps = @ + 1]
    /\ last' = [op |-> "mine_step", ok |-> TRUE]
    /\ UNCHANGED <<creator_roll_number, calls, chain, pending_transactions, balances,
                   nodes, clock, started, tamper>>

(* The loop has ended *)
finish_mining ==
    /\ mining.active
    /\ mining.block.hash.head = 0
    /\ LET st == update_balances([balances |-> balances, nodes |-> nodes],
                                 mining.block)
       IN  /\ chain' = Append(chain, mining.block)
           /\ balances' = st.balances
           /\ nodes' = st.nodes
           /\ pending_transactions' = <<>>
    /\ mining' = NotMining
    /\ last' = [op |-> "mine", ok |-> TRUE]
    /\ tamper' = IF tamper.active THEN [tamper EXCEPT !.sealed = TRUE] ELSE tamper
    /\ UNCHANGED <<creator_roll_number, calls, clock, started>>

TransferWhenIdle == ~mining.active /\ CreateTransfer

BeginMine == \E m \in RollNumbers : begin_mining(m)

MineStep == mine_step

FinishMine == finish_mining

NextSeal == TransferWhenIdle \/ BeginMine \/ MineStep \/ FinishMine

(* A call that has started runs on: the loop iterates while its condition
   holds and the statements after it are executed when it ends. *)
SpecSeal ==
    Init /\ [][NextSeal]_vars /\ WF_vars(MineStep) /\ WF_vars(FinishMine)

-----------------------------------------------------------------------------
(* The ledger given, besides transfers and seals, transactions that the
   caller builds with a synthetic sender and hands to add_transaction. *)

submit_transaction(sender, receiver, amount) ==
    /\ \E t \in Now(clock) :
        /\ add_transaction(
               Transaction(sender, receiver, amount, 0, "mining_reward", t), "submit")
        /\ clock' = t
    /\ UNCHANGED <<creator_roll_number, calls, mining, chain, balances, nodes, started, tamper>>

Submit ==
    \E f \in SyntheticSenders, t \in TransferReceivers, a \in SubmittedAmounts :
        submit_transaction(f, t, a)

NextSubmit == CreateTransfer \/ Submit \/ Mine

SpecSubmit == Init /\ [][NextSubmit]_vars

-----------------------------------------------------------------------------
(* The ledger under the public operations and the queries.  A query reads
   the ledger and returns; `last` records which query returned. *)

QueryAmounts == {Coins(150)}

(* Mutant of read_balance: an unknown address is entered with balance 0. *)
read_balance_inserting(address) ==
    /\ balances' = IF address \in DOMAIN balances
                   THEN balances
                   ELSE (address :> 0) @@ balances
    /\ last' = [op |-> "get_balance", ok |-> TRUE]
    /\ UNCHANGED <<creator_roll_number, calls, mining, chain, pending_transactions,
                   nodes, clock, started, tamper>>

(* A call of get_balance(address) *)
read_balance(address) ==
    /\ last' = [op |-> "get_balance", ok |-> TRUE]
    /\ UNCHANGED <<creator_roll_number, calls, mining, chain, pending_transactions,
                   balances, nodes, clock, started, tamper>>

(* A call of get_transaction_history() *)
read_history ==
    /\ last' = [op |-> "get_transaction_history", ok |-> TRUE]
    /\ UNCHANGED <<creator_roll_number, calls, mining, chain, pending_transactions,
                   balances, nodes, clock, started, tamper>>

(* A call of get_blockchain_stats() *)
read_stats ==
    /\ last' = [op |-> "get_blockchain_stats", ok |-> TRUE]
    /\ UNCHANGED <<creator_roll_number, calls, mining, chain, pending_transactions,
                   balances, nodes, clock, started, tamper>>

(* A call of validate_chain(); its return value is recorded *)
read_validity ==
    /\ last' = [op |-> "validate_chain", ok |-> validate_chain]
    /\ UNCHANGED <<creator_roll_number, calls, mining, chain, pending_transactions,
                   balances, nodes, clock, started, tamper>>

GetBalance == \E x \in Addresses : read_balance(x)

GetTransactionHistory == read_history

GetBlockchainStats == read_stats

ValidateChain == read_validity

LevyToFund == \E f \in Creators : create_zakat_transaction(f, ZakatFund)

TransferAmount ==
    \E f \in RollNumbers, t \in TransferReceivers, a \in QueryAmounts :
        create_transfer_transaction(f, t, a)

NextQuery ==
    \/ AddNode \/ LevyToFund \/ TransferAmount \/ CreateGift \/ Mine
    \/ GetBalance \/ GetTransactionHistory \/ GetBlockchainStats \/ ValidateChain

SpecQuery == Init /\ [][NextQuery]_vars

-----------------------------------------------------------------------------
(* mine_pending_transactions taken statement by statement, other calls
   running between its statements.  Block keeps the list it is given:
   block.transactions and self.pending_transactions are one list object,
   from the construction of the block until self.pending_transactions is
   bound to a new list, and what is appended to the one is in the other. *)

(* The calls whose block holds the list that self.pending_transactions names *)
aliasing(cs) == {c \in Callers : cs[c].aliased}

(* list.append on self.pending_transactions, the calls being cs *)
append_pending(transaction, cs) ==
    /\ pending_transactions' = Append(pending_transactions, transaction)
    /\ calls' = [c \in Callers |->
                    IF c \in aliasing(cs) /\ cs[c].pc = "mine"
                    THEN [cs[c] EXCEPT !.block.transactions = Append(@, transaction)]
                    ELSE cs[c]]
    /\ chain' = [i \in 1 .. Len(chain) |->
                    IF \E c \in aliasing(cs) :
                           cs[c].pc \in {"apply", "clear"} /\ cs[c].at = i
                    THEN [chain[i] EXCEPT !.transactions = Append(@, transaction)]
                    ELSE chain[i]]

(* The transactions other than rewards that are pending or sealed, a list
   that is both counted once *)
CreatedOf(transactions) ==
    Len(SelectSeq(transactions, LAMBDA tx : tx.transaction_type # "mining_reward"))

entries_in_lists ==
    CreatedOf(pending_transactions)
    + SumSeq([i \in 1 .. Len(chain) |->
                 IF \E c \in aliasing(calls) :
                        calls[c].pc \in {"apply", "clear"} /\ calls[c].at = i
                 THEN 0
                 ELSE CreatedOf(chain[i].transactions)])

(* Mutant of add_transaction_to_list: the block holds a copy of the list. *)
add_transaction_to_copy(transaction, op) ==
    /\ validate_transaction(transaction) => entries_in_lists < MaxEntries
    /\ IF ~validate_transaction(transaction)
       THEN /\ last' = [op |-> op, ok |-> FALSE]
            /\ UNCHANGED <<pending_transactions, calls, chain>>
       ELSE /\ pending_transactions' = Append(pending_transactions, transaction)
            /\ last' = [op |-> op, ok |-> TRUE]
            /\ UNCHANGED <<calls, chain>>

(* add_transaction, the list it appends to being shared *)
add_transaction_to_list(transaction, op) ==
    /\ validate_transaction(transaction) => entries_in_lists < MaxEntries
    /\ IF ~validate_transaction(transaction)
       THEN /\ last' = [op |-> op, ok |-> FALSE]
            /\ UNCHANGED <<pending_transactions, calls, chain>>
       ELSE /\ append_pending(transaction, calls)
            /\ last' = [op |-> op, ok |-> TRUE]

(* create_transfer_transaction and the gift path, called between the
   statements of mine_pending_transactions *)
create_transfer_transaction_to_list(from_address, to_address, amount) ==
    LET current_balance == get_balance(from_address)
        zakat_amount == calculate_zakat(current_balance)
    IN  /\ \E t \in Now(clock) :
            /\ add_transaction_to_list(
                   Transaction(from_address, to_address, amount, zakat_amount,
                               "transfer", t), "transfer")
            /\ clock' = t
        /\ UNCHANGED <<creator_roll_number, mining, balances, nodes, started, tamper>>

gift_transaction_to_list(sender, receiver, amount) ==
    /\ \E t \in Now(clock) :
        /\ add_transaction_to_list(
               Transaction(sender, receiver, amount, 0, "gift", t), "gift")
        /\ clock' = t
    /\ UNCHANGED <<creator_roll_number, mining, balances, nodes, started, tamper>>

(* Line 284: the reward is appended to the pending transactions *)
mine_pending_reward(c, mining_address) ==
    /\ calls[c].pc = "idle"
    /\ Len(chain) + Cardinality({d \in Callers : calls[d].pc \in {"construct", "mine"}})
           < MaxChain
    /\ \E t \in Now(clock) :
        /\ append_pending(
               Transaction("System", mining_address, mining_reward, 0,
                           "mining_reward", t),
               [calls EXCEPT ![c] = [@ EXCEPT !.pc = "construct",
                                              !.mining_address = mining_address]])
        /\ clock' = t
    /\ last' = [op |-> "reward", ok |-> TRUE]
    /\ UNCHANGED <<creator_roll_number, mining, balances, nodes, started, tamper>>

(* Mutant of mine_pending_block: the index counts the blocks that other
   calls have constructed and not yet appended. *)
mine_pending_block_numbered(c) ==
    /\ calls[c].pc = "construct"
    /\ \E t \in Now(clock) :
        /\ calls' = [calls EXCEPT ![c] =
                        [@ EXCEPT !.pc = "mine",
                                  !.block =
                                      Block(Len(chain)
                                            + Cardinality({d \in Callers :
                                                  calls[d].pc = "mine"}),
                                            pending_transactions,
                                            get_latest_block.hash,
                                            creator_roll_number, t),
                                  !.aliased = TRUE]]
        /\ clock' = t
    /\ last' = [op |-> "block", ok |-> TRUE]
    /\ UNCHANGED <<creator_roll_number, mining, chain, pending_transactions,
                   balances, nodes, started, tamper>>

(* Lines 287-292: the block is constructed over the list of pending
   transactions, the chain length and the hash of the latest block *)
mine_pending_block(c) ==
    /\ calls[c].pc = "construct"
    /\ \E t \in Now(clock) :
        /\ calls' = [calls EXCEPT ![c] =
                        [@ EXCEPT !.pc = "mine",
                                  !.block = Block(Len(chain), pending_transactions,
                                                  get_latest_block.hash,
                                                  creator_roll_number, t),
                                  !.aliased = TRUE]]
        /\ clock' = t
    /\ last' = [op |-> "block", ok |-> TRUE]
    /\ UNCHANGED <<creator_roll_number, mining, chain, pending_transactions,
                   balances, nodes, started, tamper>>

(* Line 295: one iteration of the loop of mine_block *)
mine_pending_nonce(c) ==
    /\ calls[c].pc = "mine"
    /\ calls[c].block.hash.head # 0
    /\ LET n == [calls[c].block EXCEPT !.nonce = @ + 1]
       IN  calls' = [calls EXCEPT ![c].block = [n EXCEPT !.hash = calculate_hash(n)]]
    /\ last' = [op |-> "nonce", ok |-> TRUE]
    /\ UNCHANGED <<creator_roll_number, mining, chain, pending_transactions,
                   balances, nodes, clock, started, tamper>>

(* Line 298: the loop has ended and the block is appended to the chain *)
mine_pending_append(c) ==
    /\ calls[c].pc = "mine"
    /\ calls[c].block.hash.head = 0
    /\ chain' = Append(chain, calls[c].block)
    /\ calls' = [calls EXCEPT ![c] = [@ EXCEPT !.pc = "apply",
                                               !.block = IdleCall.block,
                                               !.at = Len(chain) + 1,
                                               !.cursor = 0]]
    /\ last' = [op |-> "append", ok |-> TRUE]
    /\ UNCHANGED <<creator_roll_number, mining, pending_transactions,
                   balances, nodes, clock, started, tamper>>

(* Line 301: one iteration of the loop of update_balances *)
mine_pending_update(c) ==
    /\ calls[c].pc = "apply"
    /\ calls[c].cursor < Len(chain[calls[c].at].transactions)
    /\ LET transaction == chain[calls[c].at].transactions[calls[c].cursor + 1]
           st == add_to_receiver(
                     deduct_from_sender([balances |-> balances, nodes |-> nodes],
                                        transaction),
                     transaction)
       IN  /\ balances' = st.balances
           /\ nodes' = st.nodes
    /\ calls' = [calls EXCEPT ![c].cursor = @ + 1]
    /\ last' = [op |-> "update", ok |-> TRUE]
    /\ UNCHANGED <<creator_roll_number, mining, chain, pending_transactions,
                   clock, started, tamper>>

(* Line 301: the loop of update_balances finds no further transaction *)
mine_pending_updated(c) ==
    /\ calls[c].pc = "apply"
    /\ calls[c].cursor = Len(chain[calls[c].at].transactions)
    /\ calls' = [calls EXCEPT ![c].pc = "clear"]
    /\ last' = [op |-> "updated", ok |-> TRUE]
    /\ UNCHANGED <<creator_roll_number, mining, chain, pending_transactions,
                   balances, nodes, clock, started, tamper>>

(* Line 304: self.pending_transactions is bound to a new, empty list; the
   blocks keep the old one *)
mine_pending_clear(c) ==
    /\ calls[c].pc = "clear"
    /\ pending_transactions' = <<>>
    /\ calls' = [d \in Callers |->
                    IF d = c THEN IdleCall ELSE [calls[d] EXCEPT !.aliased = FALSE]]
    /\ last' = [op |-> "mine", ok |-> TRUE]
    /\ UNCHANGED <<creator_roll_number, mining, chain, balances, nodes, clock,
                   started, tamper>>

(* A statement of the call c of mine_pending_transactions *)
mine_pending_statement(c) ==
    \/ \E m \in RollNumbers : mine_pending_reward(c, m)
    \/ mine_pending_block(c)
    \/ mine_pending_nonce(c)
    \/ mine_pending_append(c)
    \/ mine_pending_update(c)
    \/ mine_pending_updated(c)
    \/ mine_pending_clear(c)

TransferToList ==
    \E f \in RollNumbers, t \in TransferReceivers, a \in QueryAmounts :
        create_transfer_transaction_to_list(f, t, a)

GiftToList ==
    \E f \in GiftSenders, t \in GiftReceivers, a \in GiftAmounts :
        gift_transaction_to_list(f, t, a)

(* One caller seals while others hand in transfers and gifts. *)
SealAlone == mine_pending_statement(1)

NextEnqueue == SealAlone \/ TransferToList \/ GiftToList

SpecEnqueue == Init /\ [][NextEnqueue]_vars

(* Two callers seal at once; transfers are handed in while neither does. *)
SealTogether == \E c \in Callers : mine_pending_statement(c)

TransferBetweenSeals == calls = NoCalls /\ TransferToList

NextSeals == SealTogether \/ TransferBetweenSeals

SpecSeals == Init /\ [][NextSeals]_vars

-----------------------------------------------------------------------------
(* Properties *)

(* Every balance is a whole number of levies: the fixed point is exact. *)
ExactMoney ==
    \A x \in DOMAIN balances : (balances[x] \div RateDivisor) * RateDivisor = balances[x]

RECURSIVE SumOver(_, _)
SumOver(f, S) ==
    IF S = {} THEN 0
    ELSE LET x == CHOOSE y \in S : TRUE IN f[x] + SumOver(f, S \ {x})

total_balance == SumOver(balances, DOMAIN balances)

initial_total_registered == SumOver(started, DOMAIN started)

(* The transactions of a sequence sent by (received by) an address *)
SentBy(transactions, x) == SelectSeq(transactions, LAMBDA tx : tx.sender = x)

ReceivedBy(transactions, x) == SelectSeq(transactions, LAMBDA tx : tx.receiver = x)

Debits(transactions, x) ==
    SumSeq([i \in 1 .. Len(SentBy(transactions, x)) |->
               SentBy(transactions, x)[i].amount + SentBy(transactions, x)[i].zakat_amount])

Credits(transactions, x) ==
    SumSeq([i \in 1 .. Len(ReceivedBy(transactions, x)) |->
               ReceivedBy(transactions, x)[i].amount])

(* C1: conservation.  In every reachable state the sum of all balances is the
   total of the starting balances given at registration plus mining_reward
   for every block after the genesis block. *)
C1_Conservation ==
    total_balance = initial_total_registered + mining_reward * (Len(chain) - 1)

(* C2: validate_chain() is true after construction and after every seal, for
   every sequence of public operations. *)
C2_ValidAfterPublicOperations == validate_chain

C2_Witness ==
    /\ Len(chain) = 3
    /\ last.op = "mine"
    /\ Len(chain[2].transactions) > 1
    /\ validate_chain

(* C3: tamper round trip.  While the stored hash of a block after the genesis
   block (the last block included) is overwritten with a different value,
   validate_chain() is false; once the original value is written back, no
   block having been sealed meanwhile, validate_chain() is true again. *)
C3_TamperRoundTrip ==
    /\ tamper.active => ~validate_chain
    /\ (~tamper.active /\ ~tamper.sealed) => validate_chain

(* The round trip completed on the last block of a chain of three. *)
C3_Witness ==
    /\ last.op = "restore"
    /\ ~tamper.active /\ ~tamper.sealed
    /\ Len(chain) = 3
    /\ tamper.index = 2
    /\ chain[3].hash = tamper.original
    /\ validate_chain

(* C4: create_transfer(A, B, amount) fails exactly when
   amount + 0.025 * balance(A) > balance(A); a failed call leaves the pending
   set, the balances, the chain and the registry unchanged, a successful one
   appends exactly one transfer transaction to the end of the pending set. *)
C4_InsufficientFundsRejection ==
    [][\A f \in RollNumbers, t \in TransferReceivers, a \in Amounts :
          (last'.op = "transfer" /\ create_transfer_transaction(f, t, a)) =>
              LET fails == a + get_balance(f) \div RateDivisor > get_balance(f)
              IN  /\ last'.ok = ~fails
                  /\ fails => UNCHANGED <<pending_transactions, balances, chain, nodes>>
                  /\ ~fails =>
                        /\ UNCHANGED <<balances, chain, nodes>>
                        /\ Len(pending_transactions') = Len(pending_transactions) + 1
                        /\ SubSeq(pending_transactions', 1, Len(pending_transactions))
                               = pending_transactions
                        /\ LET tx == pending_transactions'[Len(pending_transactions')]
                           IN  /\ tx.transaction_type = "transfer"
                               /\ tx.sender = f /\ tx.receiver = t /\ tx.amount = a]_vars

(* A transfer refused only because of the levy: the amount alone is covered. *)
C4_Witness ==
    /\ last = [op |-> "transfer", ok |-> FALSE]
    /\ \E f \in RollNumbers : get_balance(f) >= Coins(150)
                              /\ get_balance(f) < Coins(150) + calculate_zakat(get_balance(f))

(* C5: the levy stored on a transaction made by create_transfer or
   create_levy is 0.025 times the sender's sealed balance at the call,
   whatever the amount and whatever is pending; and seal debits each sender
   by the stored amount + levy of its transactions. *)
C5_LevyRule ==
    [][/\ (/\ Len(pending_transactions') = Len(pending_transactions) + 1
           /\ last'.op \in {"transfer", "zakat"})
          => LET tx == pending_transactions'[Len(pending_transactions')]
             IN  tx.zakat_amount * RateDivisor = get_balance(tx.sender)
       /\ Len(chain') = Len(chain) + 1
          => \A x \in Addresses :
                balance_of(balances', x) =
                    get_balance(x)
                    - Debits(pending_transactions, x)
                    + Credits(chain'[Len(chain')].transactions, x)]_vars

(* Two transactions of one sender in the same batch, of different amounts,
   carry the same levy, and a block that debited a levy has been sealed. *)
C5_Witness ==
    /\ Len(chain) = 2
    /\ Len(chain[2].transactions) = 3
    /\ chain[2].transactions[1].sender = chain[2].transactions[2].sender
    /\ chain[2].transactions[1].transaction_type = "transfer"
    /\ chain[2].transactions[2].transaction_type = "transfer"
    /\ chain[2].transactions[1].amount # chain[2].transactions[2].amount
    /\ chain[2].transactions[1].zakat_amount = chain[2].transactions[2].zakat_amount
    /\ chain[2].transactions[1].zakat_amount > 0

(* C6: on a fresh ledger with creator C and starting balance B, after
   create_transfer(C, R, a), R # C and a + 0.025 * B <= B, followed by
   seal(C): balance(R) = a, balance(C) = B - a - 0.025 * B + mining_reward,
   the chain has two blocks and validate_chain() is true. *)
C6_TransferThenSeal ==
    [][\A r \in Addresses \ {creator_roll_number}, a \in Amounts :
          (/\ Len(chain) = 1
           /\ DOMAIN nodes = {creator_roll_number}
           /\ balances = (creator_roll_number :> started[creator_roll_number])
           /\ Len(pending_transactions) = 1
           /\ pending_transactions[1].transaction_type = "transfer"
           /\ pending_transactions[1].sender = creator_roll_number
           /\ pending_transactions[1].receiver = r
           /\ pending_transactions[1].amount = a
           /\ mine_pending_transactions(creator_roll_number))
          => LET B == started[creator_roll_number]
             IN  /\ balance_of(balances', r) = a
                 /\ balance_of(balances', creator_roll_number)
                        = B - a - B \div RateDivisor + mining_reward
                 /\ Len(chain') = 2
                 /\ validate_chain']_vars

C6_Witness ==
    /\ Len(chain) = 2
    /\ last.op = "mine"
    /\ DOMAIN nodes = {creator_roll_number}
    /\ Len(chain[2].transactions) = 2
    /\ chain[2].transactions[1].transaction_type = "transfer"
    /\ chain[2].transactions[1].sender = creator_roll_number
    /\ chain[2].transactions[1].receiver = "N2"
    /\ chain[2].transactions[1].amount = Coins(150)
    /\ chain[2].transactions[2].receiver = creator_roll_number
    /\ started[creator_roll_number] = Coins(200)
    /\ balances = ("N2" :> Coins(150)) @@ (creator_roll_number :> Coins(55))

(* C7: chain contiguity.  chain[i].index = i for every i, the genesis block's
   previous hash is "0", and every later block's previous hash is the stored
   hash of the block before it. *)
C7_ChainContiguity ==
    /\ \A i \in 1 .. Len(chain) : chain[i].index = i - 1
    /\ chain[1].previous_hash = ZeroHash
    /\ \A i \in 2 .. Len(chain) : chain[i].previous_hash = chain[i - 1].hash

C7_Witness ==
    /\ Len(chain) = 3
    /\ chain[3].index = 2
    /\ chain[3].previous_hash = chain[2].hash
    /\ chain[2].hash # chain[1].hash

(* C8: hash integrity.  Between operations every block of the chain, the
   genesis block included, stores the hash recomputed from its own seed key,
   index, transactions, previous hash, timestamp and nonce. *)
C8_HashIntegrity ==
    \A i \in 1 .. Len(chain) : chain[i].hash = calculate_hash(chain[i])

C8_Witness ==
    /\ Len(chain) = 3
    /\ chain[2].nonce > 0
    /\ chain[3].nonce > 0
    /\ chain[3].hash = calculate_hash(chain[3])

(* C9: difficulty.  The stored hash of every block after the genesis block
   starts with `difficulty` zero hex characters; the genesis block is exempt
   and is never mined (its nonce stays 0). *)
C9_Difficulty ==
    /\ \A i \in 2 .. Len(chain) : chain[i].hash.head = 0
    /\ chain[1].nonce = 0

C9_Witness ==
    /\ Len(chain) >= 2
    /\ chain[2].nonce > 0
    /\ chain[2].hash.head = 0
    /\ chain[1].hash.head # 0

(* C10: seed key.  Every block of the chain has the creator's identifier as
   roll_number, whoever sealed it, and the creator identifier never changes. *)
C10_SeedKey ==
    /\ \A i \in 1 .. Len(chain) : chain[i].roll_number = creator_roll_number
    /\ [][/\ creator_roll_number' = creator_roll_number
          /\ \A i \in 1 .. Len(chain') : chain'[i].roll_number = creator_roll_number]_vars

C10_Witness ==
    /\ Len(chain) = 3
    /\ \E i \in 2 .. 3 :
          /\ chain[i].transactions[Len(chain[i].transactions)].receiver
                 # creator_roll_number
          /\ chain[i].roll_number = creator_roll_number

-----------------------------------------------------------------------------
(* Two ledgers side by side, as in test_unique_hashing: the twin ledger is
   constructed with another creator identifier and is given the same calls,
   the creator's identifier replaced by the twin's in the addresses, with the
   same readings of the clock. *)

twin_address(x) == IF x = creator_roll_number THEN TwinCreator ELSE x

(* The pending set the twin ledger seals when this ledger seals a block with
   the given transactions: all of them but the reward. *)
twin_pending(transactions) ==
    [i \in 1 .. Len(transactions) - 1 |->
        [transactions[i] EXCEPT !.sender = twin_address(@),
                                !.receiver = twin_address(@)]]

(* The chain of the twin ledger after the calls that built the first n
   blocks of this one. *)
RECURSIVE twin_chain(_)
twin_chain(n) ==
    IF n = 1
    THEN <<genesis_block(TwinCreator, chain[1].transactions[1].timestamp,
                         chain[1].timestamp)>>
    ELSE LET before == twin_chain(n - 1)
             reward == chain[n].transactions[Len(chain[n].transactions)]
         IN  Append(before,
                    mined_block(before, twin_pending(chain[n].transactions),
                                TwinCreator, twin_address(reward.receiver),
                                reward.timestamp, chain[n].timestamp))

(* C11: seed-key isolation.  A ledger that differs only in its creator
   identifier and is run through the same transactions and seals, with the
   same timestamps and the same nonces, stores a different hash in every
   corresponding block; and the hash of a block changes when nothing but its
   seed key is changed, the seed key being an input of the hash. *)
C11_SeedKeyIsolation ==
    LET twin == twin_chain(Len(chain))
    IN  /\ Len(twin) = Len(chain)
        /\ \A i \in 1 .. Len(chain) :
              /\ twin[i].roll_number # chain[i].roll_number
              /\ twin[i].hash # chain[i].hash
              /\ calculate_hash([chain[i] EXCEPT !.roll_number = TwinCreator])
                     # calculate_hash(chain[i])

(* Both ledgers hold a transfer of the creator sealed by the creator, as in
   the test, and a third block. *)
C11_Witness ==
    /\ Len(chain) = 3
    /\ Len(chain[2].transactions) = 2
    /\ chain[2].transactions[1].transaction_type = "transfer"
    /\ chain[2].transactions[1].sender = creator_roll_number
    /\ chain[2].transactions[2].receiver = creator_roll_number
    /\ twin_chain(3)[2].transactions[1].sender = TwinCreator
    /\ \A i \in 1 .. 3 : twin_chain(3)[i].nonce = chain[i].nonce
    /\ twin_chain(3)[2].hash # chain[2].hash

(* C12: duplicate registration.  add_node on an identifier that is already
   registered returns False and leaves the registry, the balances, the
   pending set and the chain unchanged; one account (the creator) is
   registered after construction, and the number of registered accounts grows
   by exactly one on each call that returns True and never otherwise. *)
C12_DuplicateRegistration ==
    /\ Cardinality(DOMAIN nodes) = 1
    /\ [][/\ \A r \in RollNumbers, b \in NodeBalances :
                (last'.op = "add_node" /\ add_node(r, b)) =>
                    /\ last'.ok = (r \notin DOMAIN nodes)
                    /\ r \in DOMAIN nodes =>
                          UNCHANGED <<nodes, balances, pending_transactions, chain>>
          /\ Cardinality(DOMAIN nodes') =
                 Cardinality(DOMAIN nodes)
                 + (IF last'.op = "add_node" /\ last'.ok THEN 1 ELSE 0)]_vars

(* A refused registration of an account whose balance is no longer the one
   it was registered with. *)
C12_Witness ==
    /\ last = [op |-> "add_node", ok |-> FALSE]
    /\ Cardinality(DOMAIN nodes) = 2
    /\ \E r \in DOMAIN nodes : get_balance(r) \notin NodeBalances \cup CreatorBalances

(* C13 as stated: after any add_node(id, b) call that returns True,
   balance(id) = b, also when id was the receiver of sealed transactions
   before it was registered. *)
C13_RegistrationBalanceAlways ==
    [][\A r \in RollNumbers, b \in NodeBalances :
          (last'.op = "add_node" /\ last'.ok /\ add_node(r, b)) =>
              balance_of(balances', r) = b]_vars

(* C13, amended: after an add_node(id, b) call that returns True,
   balance(id) = b when id had no balance before the call (it was neither
   sender nor receiver of a sealed transaction); otherwise balance(id) is
   what it was before the call. *)
C13_RegistrationBalance ==
    [][\A r \in RollNumbers, b \in NodeBalances :
          (last'.op = "add_node" /\ last'.ok /\ add_node(r, b)) =>
              balance_of(balances', r) =
                  IF r \in DOMAIN balances THEN balances[r] ELSE b]_vars

(* An account just registered that had received a sealed transfer before. *)
C13_Witness ==
    /\ last = [op |-> "add_node", ok |-> TRUE]
    /\ "N2" \in DOMAIN nodes
    /\ nodes["N2"].transactions_count = 0
    /\ balances["N2"] # started["N2"]
    /\ \E i \in 2 .. Len(chain) :
          \E j \in 1 .. Len(chain[i].transactions) :
              chain[i].transactions[j].receiver = "N2"

(* C14: genesis construction.  Immediately after ZakatBlockchain(creator, s),
   for any starting balance s, the chain has exactly one block, of index 0
   and previous hash "0", holding exactly one transaction, of type genesis,
   sender "Genesis", receiver the creator, zakat_amount 0 and amount s;
   balance(creator) = s, nothing is pending and the creator is the only
   registered account. *)
C14_GenesisConstruction ==
    last.op = "init" =>
        /\ Len(chain) = 1
        /\ chain[1].index = 0
        /\ chain[1].previous_hash = ZeroHash
        /\ Len(chain[1].transactions) = 1
        /\ chain[1].transactions[1].transaction_type = "genesis"
        /\ chain[1].transactions[1].sender = "Genesis"
        /\ chain[1].transactions[1].receiver = creator_roll_number
        /\ chain[1].transactions[1].zakat_amount = 0
        /\ chain[1].transactions[1].amount = started[creator_roll_number]
        /\ get_balance(creator_roll_number) = started[creator_roll_number]
        /\ pending_transactions = <<>>
        /\ DOMAIN nodes = {creator_roll_number}

(* Every address that can hold a balance *)
Accounts == Addresses \cup SyntheticSenders

(* What the sealed blocks from the k-th on credit to, and debit from, an
   address; nothing is debited from the senders "Genesis" and "System". *)
ChainCredits(k, x) ==
    SumSeq([i \in 1 .. Len(chain) - k + 1 |->
               Credits(chain[i + k - 1].transactions, x)])

ChainDebits(k, x) ==
    IF x \in SyntheticSenders
    THEN 0
    ELSE SumSeq([i \in 1 .. Len(chain) - k + 1 |->
                    Debits(chain[i + k - 1].transactions, x)])

(* C15 as stated: in every reachable state the balance of every account is
   the sum of the amounts of the sealed transactions, those of the genesis
   block included, that it receives, minus the sum of amount + zakat_amount
   of the sealed transactions that it sends, nothing being debited from
   "Genesis" and "System". *)
C15_BalancesFromChain ==
    \A x \in Accounts : get_balance(x) = ChainCredits(1, x) - ChainDebits(1, x)

(* The part of a balance that does not come from the blocks sealed after the
   genesis block *)
opening_balance(x) == get_balance(x) - (ChainCredits(2, x) - ChainDebits(2, x))

(* C15, amended: the balance of every account is the starting balance
   written for it by the constructor or by a registration (nothing for an
   account that was given none, or that had a balance already when it was
   registered), plus the amounts of the transactions it receives in the
   blocks sealed after the genesis block, minus amount + zakat_amount of
   those it sends; the genesis transaction is not counted. *)
C15_BalancesFromChainAndStart ==
    /\ \A x \in Accounts :
          opening_balance(x) =
              IF x = creator_roll_number THEN started[creator_roll_number] ELSE 0
    /\ [][\/ chain' = chain /\ balances' = balances
          \/ \A x \in Accounts :
             opening_balance(x)' =
                 IF /\ last'.op = "add_node" /\ last'.ok
                    /\ x \notin DOMAIN balances /\ x \in DOMAIN balances'
                 THEN started'[x]
                 ELSE opening_balance(x)]_vars

(* A creator that did not start with the amount of the genesis transaction,
   and a registered account whose balance is made of its starting balance
   and of a sealed transfer. *)
C15_Witness ==
    /\ started[creator_roll_number] # chain[1].transactions[1].amount
    /\ Len(chain) = 3
    /\ "N2" \in DOMAIN nodes
    /\ opening_balance("N2") = started["N2"]
    /\ ChainCredits(2, "N2") > 0
    /\ ChainDebits(2, creator_roll_number) > 0
    /\ get_balance("N2") = started["N2"] + ChainCredits(2, "N2") - ChainDebits(2, "N2")

(* C16: synthetic-sender exemption.  validate_transaction, and so
   add_transaction, accepts every transaction whose sender is "Genesis" or
   "System", whatever that sender's balance and whatever the amount. *)
C16_SyntheticSenderExemption ==
    /\ last.op = "submit" => last.ok
    /\ \A f \in SyntheticSenders, t \in TransferReceivers, a \in SubmittedAmounts :
          last.op = "submit" =>
              validate_transaction(Transaction(f, t, a, 0, "mining_reward", clock))

(* The transactions made by create_zakat_transaction,
   create_transfer_transaction and the gift path *)
CreatedTypes == {"zakat", "transfer", "gift"}

NonNegative(tx) ==
    tx.transaction_type \in CreatedTypes => tx.amount >= 0 /\ tx.zakat_amount >= 0

(* C17: non-negative transactions.  Every transaction that reaches the
   pending set or a sealed block through create_zakat_transaction,
   create_transfer_transaction or the gift path has amount >= 0 and
   zakat_amount >= 0, whatever amount the caller gives and whatever the
   sender's balance is. *)
C17_NonNegativeEntries ==
    /\ \A j \in 1 .. Len(pending_transactions) : NonNegative(pending_transactions[j])
    /\ \A i \in 1 .. Len(chain) :
          \A j \in 1 .. Len(chain[i].transactions) : NonNegative(chain[i].transactions[j])

(* C18: seal effect.  mine_pending_transactions(m) on a chain of n blocks
   with the pending sequence P, empty or not, leaves n + 1 blocks and nothing
   pending; the new block has index n, the hash of block n - 1 as previous
   hash, and as transactions P in the same order followed by exactly one
   reward (sender "System", receiver m, amount mining_reward, zakat_amount 0,
   type mining_reward). *)
C18_SealEffect ==
    [][\A m \in RollNumbers :
          (last'.op = "mine" /\ mine_pending_transactions(m)) =>
              LET n == Len(chain)
                  P == pending_transactions
                  block == chain'[n + 1]
                  reward == block.transactions[Len(P) + 1]
              IN  /\ Len(chain') = n + 1
                  /\ SubSeq(chain', 1, n) = chain
                  /\ pending_transactions' = <<>>
                  /\ block.index = n
                  /\ block.previous_hash = chain[n].hash
                  /\ Len(block.transactions) = Len(P) + 1
                  /\ SubSeq(block.transactions, 1, Len(P)) = P
                  /\ reward.sender = "System"
                  /\ reward.receiver = m
                  /\ reward.amount = mining_reward
                  /\ reward.zakat_amount = 0
                  /\ reward.transaction_type = "mining_reward"]_vars

(* A block sealed with two pending transactions, then one with none. *)
C18_Witness ==
    /\ last.op = "mine"
    /\ Len(chain) = 3
    /\ Len(chain[2].transactions) = 3
    /\ chain[2].transactions[1] # chain[2].transactions[2]
    /\ chain[2].transactions[3].sender = "System"
    /\ Len(chain[3].transactions) = 1
    /\ chain[3].transactions[1].sender = "System"
    /\ pending_transactions = <<>>

(* The hash of a block with another nonce *)
hash_at(b, k) == calculate_hash([b EXCEPT !.nonce = k])

(* C19: seal always completes.  A call of mine_pending_transactions has no
   failure outcome: the search starts at nonce 0, increments the nonce by one
   per iteration, stops at the first nonce whose hash has the `difficulty`
   zero characters, and ends; after it the block is appended, the balances
   are updated and the pending set is cleared. *)
C19_SealCompletes ==
    /\ [][/\ last'.op = "mine_begin" =>
                /\ mining'.active
                /\ mining'.block.nonce = 0
                /\ mining'.block.hash = hash_at(mining'.block, 0)
          /\ (mining.active /\ mining'.active) =>
                /\ mining.block.hash.head # 0
                /\ mining'.block.nonce = mining.block.nonce + 1
                /\ mining'.block.hash = hash_at(mining.block, mining.block.nonce + 1)
          /\ (mining.active /\ ~mining'.active) =>
                /\ last' = [op |-> "mine", ok |-> TRUE]
                /\ mining.block.hash.head = 0
                /\ \A k \in 0 .. mining.block.nonce - 1 :
                      hash_at(mining.block, k).head # 0
                /\ chain' = Append(chain, mining.block)
                /\ pending_transactions' = <<>>
                /\ \A x \in Addresses :
                      balance_of(balances', x) =
                          get_balance(x)
                          - Debits(mining.block.transactions, x)
                          + Credits(mining.block.transactions, x)]_vars
    /\ mining.active ~> (~mining.active /\ last = [op |-> "mine", ok |-> TRUE])

(* A seal completed after a search of at least two iterations, with a
   transfer applied. *)
C19_Witness ==
    /\ last = [op |-> "mine", ok |-> TRUE]
    /\ ~mining.active
    /\ pending_transactions = <<>>
    /\ Len(chain) >= 2
    /\ chain[Len(chain)].nonce >= 2
    /\ chain[Len(chain)].hash.head = 0
    /\ Len(chain[Len(chain)].transactions) >= 2

(* C20: sealer reward.  For every address m that is the sender of no pending
   transaction, mine_pending_transactions(m) strictly increases balance(m),
   by exactly mining_reward plus the amounts of the pending transactions
   whose receiver is m, whether m is the creator or not. *)
C20_SealerReward ==
    [][\A m \in RollNumbers :
          (/\ last'.op = "mine"
           /\ mine_pending_transactions(m)
           /\ SentBy(pending_transactions, m) = <<>>) =>
              /\ balance_of(balances', m) =
                     get_balance(m) + mining_reward + Credits(pending_transactions, m)
              /\ balance_of(balances', m) > get_balance(m)]_vars

(* C21: tamper detection.  On a chain built by the public operations, after
   any single hashed field (the content of a transaction, the previous hash,
   the nonce, the timestamp, the seed key or the index) of any block after
   the genesis block is changed and the block's stored hash is left as it
   was, validate_chain() is false, the hash being free of collisions. *)
C21_TamperDetection ==
    tamper.active =>
        /\ chain[tamper.index + 1].hash = tamper.original
        /\ ~validate_chain

(* Every field has been tampered with in some reachable state; here the
   nonce of the last block of three, whose links are all intact. *)
C21_Witness ==
    /\ tamper.active
    /\ last.op = "nonce"
    /\ Len(chain) = 3
    /\ tamper.index = 2
    /\ chain[3].hash = tamper.original
    /\ validate_chain_links_only
    /\ ~validate_chain

(* C22: advisory validation.  While the stored hash of a block after the
   genesis block is overwritten, create_zakat_transaction,
   create_transfer_transaction, the gift path and mine_pending_transactions
   behave as on a valid chain: transactions are accepted by the same rule,
   a seal appends a block linked to the stored hash of the last block and
   applies the balances; and validate_chain() is false after every such
   operation. *)
C22_AdvisoryValidation ==
    /\ [](tamper.active => ~validate_chain)
    /\ [][tamper.active =>
          /\ \A f \in RollNumbers, a \in Amounts :
                (last'.op = "transfer"
                 /\ \E t \in TransferReceivers : create_transfer_transaction(f, t, a)) =>
                    /\ last'.ok = (get_balance(f) >= a + get_balance(f) \div RateDivisor)
                    /\ Len(pending_transactions') =
                           Len(pending_transactions) + (IF last'.ok THEN 1 ELSE 0)
          /\ \A f \in RollNumbers :
                (last'.op = "zakat"
                 /\ \E t \in ZakatReceivers : create_zakat_transaction(f, t)) =>
                    /\ last'.ok = (get_balance(f) > 0)
                    /\ Len(pending_transactions') =
                           Len(pending_transactions) + (IF last'.ok THEN 1 ELSE 0)
          /\ \A f \in GiftSenders, a \in GiftAmounts :
                (last'.op = "gift"
                 /\ \E t \in GiftReceivers : gift_transaction(f, t, a)) =>
                    /\ last'.ok = (get_balance(f) >= a)
                    /\ Len(pending_transactions') =
                           Len(pending_transactions) + (IF last'.ok THEN 1 ELSE 0)
          /\ last'.op = "mine" =>
                /\ Len(chain') = Len(chain) + 1
                /\ SubSeq(chain', 1, Len(chain)) = chain
                /\ chain'[Len(chain')].previous_hash = chain[Len(chain)].hash
                /\ SubSeq(chain'[Len(chain')].transactions, 1,
                          Len(pending_transactions)) = pending_transactions
                /\ pending_transactions' = <<>>
                /\ \A x \in Addresses :
                      balance_of(balances', x) =
                          get_balance(x)
                          - Debits(pending_transactions, x)
                          + Credits(chain'[Len(chain')].transactions, x)]_vars

(* The hash of the last block overwritten, then a transaction accepted and a
   block sealed on top of the overwritten hash. *)
C22_Witness ==
    /\ tamper.active /\ tamper.sealed
    /\ last.op = "mine"
    /\ Len(chain) = 3
    /\ tamper.index = 1
    /\ chain[2].hash = TamperedHash
    /\ chain[3].previous_hash = TamperedHash
    /\ Len(chain[3].transactions) = 2
    /\ ~validate_chain

(* The number of transactions in the blocks before the i-th *)
sealed_before(i) == SumSeq([k \in 1 .. i - 1 |-> Len(chain[k].transactions)])

(* C23: history.  get_transaction_history() returns every transaction of
   every sealed block, the genesis transaction first, in chain order and
   within a block in the order of the block, each with the index and the
   stored hash of its block; the pending transactions are not in it, and its
   length is total_transactions of get_blockchain_stats(). *)
C23_History ==
    LET history == get_transaction_history
    IN  /\ Len(history) = sealed_before(Len(chain) + 1)
        /\ Len(history) = get_blockchain_stats.total_transactions
        /\ history[1].transaction_type = "genesis"
        /\ \A i \in 1 .. Len(chain) :
              \A j \in 1 .. Len(chain[i].transactions) :
                  LET entry == history[sealed_before(i) + j]
                      transaction == chain[i].transactions[j]
                  IN  /\ entry.block_index = i - 1
                      /\ entry.block_index = chain[i].index
                      /\ entry.block_hash = chain[i].hash
                      /\ entry.sender = transaction.sender
                      /\ entry.receiver = transaction.receiver
                      /\ entry.amount = transaction.amount
                      /\ entry.zakat_amount = transaction.zakat_amount
                      /\ entry.transaction_type = transaction.transaction_type
                      /\ entry.timestamp = transaction.timestamp

(* Two sealed blocks, the second with a transaction and the reward, and a
   transaction pending that the history does not list. *)
C23_Witness ==
    /\ Len(chain) = 2
    /\ Len(chain[2].transactions) = 2
    /\ Len(pending_transactions) = 1
    /\ Len(get_transaction_history) = 3
    /\ get_transaction_history[2].block_index = 1
    /\ get_transaction_history[3].transaction_type = "mining_reward"
    /\ get_transaction_history[3].block_hash = chain[2].hash

(* C24: statistics.  In every reachable state get_blockchain_stats() gives
   total_blocks the length of the chain, total_transactions the number of
   transactions of all sealed blocks, total_zakat_collected the sum of
   zakat_amount over all sealed transactions, the pending ones left out,
   chain_valid the value of validate_chain(), and active_nodes and
   total_nodes both the number of registered accounts. *)
C24_Statistics ==
    LET stats == get_blockchain_stats
    IN  /\ stats.total_blocks = Len(chain)
        /\ stats.total_transactions = sealed_before(Len(chain) + 1)
        /\ stats.total_zakat_collected =
               SumSeq([i \in 1 .. Len(chain) |->
                          SumSeq([j \in 1 .. Len(chain[i].transactions) |->
                                     chain[i].transactions[j].zakat_amount])])
        /\ stats.chain_valid = validate_chain
        /\ stats.total_nodes = Cardinality(DOMAIN nodes)
        /\ stats.active_nodes = stats.total_nodes

(* A levy sealed and another one pending, two accounts registered. *)
C24_Witness ==
    /\ Len(chain) = 2
    /\ get_blockchain_stats.total_zakat_collected > 0
    /\ Len(pending_transactions) = 1
    /\ pending_transactions[1].zakat_amount > 0
    /\ get_blockchain_stats.total_transactions = 3
    /\ get_blockchain_stats.total_nodes = 2
    /\ get_blockchain_stats.active_nodes = 2

(* C25: create_zakat_transaction(from, to) returns True and appends exactly
   one zakat transaction, of amount 0 and zakat_amount 0.025 * balance(from),
   exactly when balance(from) > 0; when balance(from) <= 0, an unknown
   account included, it returns False and the pending set is unchanged. *)
C25_CreateLevyOutcome ==
    [][\A f \in RollNumbers, t \in ZakatReceivers :
          (last'.op = "zakat" /\ create_zakat_transaction(f, t)) =>
              /\ last'.ok = (get_balance(f) > 0)
              /\ ~last'.ok => UNCHANGED pending_transactions
              /\ last'.ok =>
                    /\ Len(pending_transactions') = Len(pending_transactions) + 1
                    /\ SubSeq(pending_transactions', 1, Len(pending_transactions))
                           = pending_transactions
                    /\ LET tx == pending_transactions'[Len(pending_transactions')]
                       IN  /\ tx.transaction_type = "zakat"
                           /\ tx.sender = f /\ tx.receiver = t
                           /\ tx.amount = 0
                           /\ tx.zakat_amount = get_balance(f) \div RateDivisor
                           /\ tx.zakat_amount > 0]_vars

(* A levy refused to the creator, whose balance is negative; the other
   account has a positive balance and would not be refused. *)
C25_Witness ==
    /\ last = [op |-> "zakat", ok |-> FALSE]
    /\ get_balance(creator_roll_number) < 0
    /\ \A f \in RollNumbers \ {creator_roll_number} : get_balance(f) > 0

(* The sum of the amounts of the gifts of a sequence sent by (received by)
   an address *)
GiftsSent(transactions, x) ==
    SumSeq([i \in 1 .. Len(transactions) |->
               IF transactions[i].transaction_type = "gift"
                  /\ transactions[i].sender = x
               THEN transactions[i].amount ELSE 0])

GiftsReceived(transactions, x) ==
    SumSeq([i \in 1 .. Len(transactions) |->
               IF transactions[i].transaction_type = "gift"
                  /\ transactions[i].receiver = x
               THEN transactions[i].amount ELSE 0])

OnlyGifts(transactions) ==
    \A i \in 1 .. Len(transactions) : transactions[i].transaction_type = "gift"

(* C26: gift path.  A gift (zakat_amount 0) from A to B of amount a is
   accepted into the pending set exactly when balance(A) >= a, and refused
   otherwise with the pending set unchanged; the seal of an accepted gift
   debits A by exactly a and credits B by exactly a, no levy being charged. *)
C26_GiftPath ==
    [][/\ \A f \in GiftSenders, t \in GiftReceivers, a \in GiftAmounts :
             (last'.op = "gift" /\ gift_transaction(f, t, a)) =>
                 /\ last'.ok = (get_balance(f) >= a)
                 /\ ~last'.ok => UNCHANGED pending_transactions
                 /\ last'.ok =>
                       /\ Len(pending_transactions') = Len(pending_transactions) + 1
                       /\ SubSeq(pending_transactions', 1, Len(pending_transactions))
                              = pending_transactions
                       /\ LET tx == pending_transactions'[Len(pending_transactions')]
                          IN  /\ tx.transaction_type = "gift"
                              /\ tx.sender = f /\ tx.receiver = t
                              /\ tx.amount = a
                              /\ tx.zakat_amount = 0
       /\ \A m \in RollNumbers :
             (/\ last'.op = "mine"
              /\ OnlyGifts(pending_transactions)
              /\ mine_pending_transactions(m)) =>
                 \A x \in Addresses :
                     balance_of(balances', x) =
                         get_balance(x)
                         - GiftsSent(pending_transactions, x)
                         + GiftsReceived(pending_transactions, x)
                         + (IF x = m THEN mining_reward ELSE 0)]_vars

(* A gift sealed: the giver has lost its amount and nothing else. *)
C26_Witness ==
    /\ last.op = "mine"
    /\ Len(chain) = 3
    /\ Len(chain[3].transactions) = 2
    /\ chain[3].transactions[1].transaction_type = "gift"
    /\ chain[3].transactions[1].sender = "N2"
    /\ chain[3].transactions[1].receiver = "N1"
    /\ chain[3].transactions[2].receiver = "N1"
    /\ chain[2].transactions[1].transaction_type = "transfer"
    /\ get_balance("N2") = 0

(* C27: validation reserves nothing.  When a transfer of A has been accepted,
   the same transfer of A made next, before any seal, is accepted too, with
   the same levy, even when the two together cost more than balance(A); the
   seal debits every transaction in order without checking again, and leaves
   balance(A) at its value before the seal minus amount + zakat_amount of
   all its transactions plus what it is credited, which can be negative. *)
C27_NothingReserved ==
    [][/\ \A f \in RollNumbers, t \in TransferReceivers, a \in Amounts :
             (/\ last = [op |-> "transfer", ok |-> TRUE]
              /\ pending_transactions # <<>>
              /\ LET tx == pending_transactions[Len(pending_transactions)]
                 IN  tx.sender = f /\ tx.receiver = t /\ tx.amount = a
              /\ create_transfer_transaction(f, t, a)) =>
                 /\ last'.ok
                 /\ UNCHANGED balances
                 /\ Len(pending_transactions') = Len(pending_transactions) + 1
                 /\ LET tx == pending_transactions[Len(pending_transactions)]
                        again == pending_transactions'[Len(pending_transactions')]
                    IN  /\ again.sender = tx.sender
                        /\ again.receiver = tx.receiver
                        /\ again.amount = tx.amount
                        /\ again.zakat_amount = tx.zakat_amount
                        /\ again.transaction_type = tx.transaction_type
       /\ last'.op = "mine" =>
             \A x \in Addresses :
                 balance_of(balances', x) =
                     get_balance(x)
                     - Debits(pending_transactions, x)
                     + Credits(chain'[Len(chain')].transactions, x)]_vars

(* Two identical transfers of the creator sealed in one block: together they
   cost more than the balance, which is left negative. *)
C27_Witness ==
    /\ last.op = "mine"
    /\ Len(chain) = 2
    /\ Len(chain[2].transactions) = 3
    /\ chain[2].transactions[1] = chain[2].transactions[2]
    /\ chain[2].transactions[1].sender = creator_roll_number
    /\ 2 * (chain[2].transactions[1].amount \div RateDivisor
            + chain[2].transactions[1].zakat_amount \div RateDivisor)
           > started[creator_roll_number] \div RateDivisor
    /\ get_balance(creator_roll_number) < 0

(* The ledger state reached from st by the first k transactions of a block *)
applied_upto(st, transactions, k) ==
    apply_transactions(st, SubSeq(transactions, 1, k))

(* C28: balance application.  A seal applies the transactions of the new
   block one by one in the order of the block; for each one a sender other
   than "System" and "Genesis" is debited exactly amount + zakat_amount, an
   unseen sender being created at 0 first, and the receiver is credited
   exactly amount, an unseen receiver being created at 0 first; a synthetic
   sender is never debited and does not enter the balances by sending; a
   transaction whose sender is its receiver changes the balance by
   -zakat_amount. *)
C28_BalanceApplication ==
    [][last'.op = "mine" =>
          LET transactions == chain'[Len(chain')].transactions
              st == [balances |-> balances, nodes |-> nodes]
          IN  /\ balances' = applied_upto(st, transactions, Len(transactions)).balances
              /\ \A k \in 1 .. Len(transactions) :
                    LET before == applied_upto(st, transactions, k - 1).balances
                        after == applied_upto(st, transactions, k).balances
                        tx == transactions[k]
                        real == tx.sender \notin SyntheticSenders
                    IN  /\ DOMAIN after =
                               DOMAIN before \cup {tx.receiver}
                               \cup (IF real THEN {tx.sender} ELSE {})
                        /\ \A x \in DOMAIN after :
                              after[x] =
                                  balance_of(before, x)
                                  - (IF real /\ x = tx.sender
                                     THEN tx.amount + tx.zakat_amount ELSE 0)
                                  + (IF x = tx.receiver THEN tx.amount ELSE 0)
                        /\ (real /\ tx.sender = tx.receiver) =>
                              after[tx.sender] =
                                  balance_of(before, tx.sender) - tx.zakat_amount]_vars

(* A block sealed that holds a transfer of an account to itself, besides the
   reward, whose sender has no balance. *)
C28_Witness ==
    /\ last.op = "mine"
    /\ Len(chain) = 3
    /\ Len(chain[3].transactions) = 2
    /\ chain[3].transactions[1].sender = chain[3].transactions[1].receiver
    /\ chain[3].transactions[1].zakat_amount > 0
    /\ chain[3].transactions[2].sender = "System"
    /\ "System" \notin DOMAIN balances

(* C29: registry snapshot.  After every seal and after every registration,
   the balance recorded in the registry record of every registered account
   is its balance in the balance mapping, whether the account was a sender, a
   receiver, the sealer or untouched by the block. *)
C29_RegistrySnapshot ==
    last.op \in {"mine", "add_node"} =>
        \A x \in DOMAIN nodes : nodes[x].balance = get_balance(x)

(* C30: registration never overwrites a balance.  A registration step,
   accepted or refused, leaves the balance of every account already in the
   balance mapping as it was (the creator, a registered account, an account
   a sealed transaction created), and the only account it may add to the
   mapping is the one it registers. *)
C30_RegistrationKeepsBalances ==
    [][last'.op = "add_node" =>
          /\ \A x \in DOMAIN balances :
                 x \in DOMAIN balances' /\ balances'[x] = balances[x]
          /\ (DOMAIN balances') \ (DOMAIN balances)
                 \subseteq (DOMAIN nodes') \ (DOMAIN nodes)
          /\ ~last'.ok => balances' = balances]_vars

(* A registration was just accepted for an account whose balance came from a
   sealed transaction: the record carries the registration's balance, the
   mapping the older one. *)
C30_Witness ==
    /\ last = [op |-> "add_node", ok |-> TRUE]
    /\ \E x \in DOMAIN nodes :
           /\ x # creator_roll_number
           /\ nodes[x].transactions_count = 0
           /\ nodes[x].balance # get_balance(x)

QueryOps ==
    {"get_balance", "get_transaction_history", "get_blockchain_stats",
     "validate_chain"}

(* C31: frame of the operations that do not seal.  A levy, transfer or gift
   request, accepted or rejected, leaves the balances, the chain and the
   registry unchanged; a query leaves the balances, the chain, the registry
   and the pending transactions unchanged, and get_balance of an unknown
   address is 0 without the address entering the balances; the balances
   change only in a seal or in the registration of a new roll number. *)
C31_NonSealingFrame ==
    [][/\ last'.op \in {"zakat", "transfer", "gift"} =>
              balances' = balances /\ chain' = chain /\ nodes' = nodes
       /\ last'.op \in QueryOps =>
              /\ balances' = balances /\ chain' = chain /\ nodes' = nodes
              /\ pending_transactions' = pending_transactions
       /\ last'.op = "get_balance" =>
              \A x \in Addresses \ DOMAIN balances :
                  get_balance(x) = 0 /\ x \notin DOMAIN balances'
       /\ balances' # balances =>
              \/ last'.op = "mine"
              \/ /\ last' = [op |-> "add_node", ok |-> TRUE]
                 /\ \E r \in DOMAIN nodes' :
                        r \notin DOMAIN nodes /\ r \notin DOMAIN balances]_vars

(* get_balance has just returned on a ledger that holds sealed blocks and a
   pending transaction, and does not know the fund's address. *)
C31_Witness ==
    /\ last.op = "get_balance"
    /\ Len(chain) > 1
    /\ pending_transactions # <<>>
    /\ ZakatFund \notin DOMAIN balances

(* C32: the chain is append-only.  Every seal makes the chain one block
   longer, every other operation leaves its length alone, and the chain
   before a step is a prefix of the chain after it: each block keeps its
   index, transactions, previous hash, seed key, timestamp, nonce and
   stored hash. *)
C32_AppendOnly ==
    [][/\ Len(chain') = (IF last'.op = "mine" THEN Len(chain) + 1 ELSE Len(chain))
       /\ \A i \in 1 .. Len(chain) :
              /\ chain'[i].index = chain[i].index
              /\ chain'[i].transactions = chain[i].transactions
              /\ chain'[i].previous_hash = chain[i].previous_hash
              /\ chain'[i].roll_number = chain[i].roll_number
              /\ chain'[i].timestamp = chain[i].timestamp
              /\ chain'[i].nonce = chain[i].nonce
              /\ chain'[i].hash = chain[i].hash
       /\ SubSeq(chain', 1, Len(chain)) = chain]_vars

(* Two blocks were sealed after the genesis block, and operations of every
   other kind followed: the last one a refused registration. *)
C32_Witness ==
    /\ Len(chain) = 3
    /\ chain[2].transactions # chain[3].transactions
    /\ pending_transactions # <<>>
    /\ last = [op |-> "add_node", ok |-> FALSE]

(* C33: no transaction is lost or duplicated.  An accepted request adds its
   one transaction at the end of the pending transactions and a rejected one
   adds nothing; no other operation but a seal touches them; a seal puts
   exactly the pending transactions, in their order, followed by its one
   reward, into the one block it appends, and leaves nothing pending.  The
   sealed blocks themselves never change. *)
C33_NothingLostOrDuplicated ==
    [][LET P == pending_transactions
           n == Len(chain)
       IN  IF last'.op = "mine"
           THEN /\ Len(chain') = n + 1
                /\ SubSeq(chain', 1, n) = chain
                /\ LET T == chain'[n + 1].transactions
                   IN  /\ Len(T) = Len(P) + 1
                       /\ SubSeq(T, 1, Len(P)) = P
                       /\ T[Len(T)].sender = "System"
                       /\ T[Len(T)].transaction_type = "mining_reward"
                /\ pending_transactions' = <<>>
           ELSE /\ chain' = chain
                /\ IF last'.op \in {"zakat", "transfer", "gift"} /\ last'.ok
                   THEN /\ Len(pending_transactions') = Len(P) + 1
                        /\ SubSeq(pending_transactions', 1, Len(P)) = P
                        /\ pending_transactions'[Len(P) + 1].transaction_type
                               = last'.op
                   ELSE pending_transactions' = P]_vars

(* A levy and then a transfer were accepted and the next seal put them, in
   that order and before its reward, into its block. *)
C33_Witness ==
    /\ last.op = "mine"
    /\ Len(chain) >= 2
    /\ pending_transactions = <<>>
    /\ LET T == chain[Len(chain)].transactions
       IN  /\ Len(T) = 3
           /\ T[1].transaction_type = "zakat"
           /\ T[2].transaction_type = "transfer"
           /\ T[3].transaction_type = "mining_reward"

(* C34: replay with starting balances.  For every account a of the balances,
   get_balance(a) = s(a) + (amounts a receives in the blocks of index >= 1)
   - (amount + zakat_amount a sends in those blocks), where s(a) is the
   starting balance of the constructor or of the registration that entered a
   into the balances, and 0 when a seal entered it; the genesis transaction
   counts for nothing.  Stated on s(a) = opening_balance(a): it is the
   creator's starting balance at construction, it is fixed when a enters the
   balances (by a seal: 0; by a registration: the balance registered), and
   it never changes afterwards, a later registration of a included. *)
C34_ReplayWithStart ==
    /\ DOMAIN balances = {creator_roll_number}
    /\ opening_balance(creator_roll_number) = started[creator_roll_number]
    /\ [][\/ chain' = chain /\ balances' = balances
          \/ /\ DOMAIN balances \subseteq DOMAIN balances'
             /\ \A a \in DOMAIN balances' :
                    opening_balance(a)' =
                        IF a \in DOMAIN balances THEN opening_balance(a)
                        ELSE IF last'.op = "mine" THEN 0
                        ELSE started'[a]
             /\ (DOMAIN balances' # DOMAIN balances) =>
                    \/ last'.op = "mine"
                    \/ last' = [op |-> "add_node", ok |-> TRUE]]_vars

(* The creator started with another amount than the genesis transaction's;
   N2 entered the balances through a sealed transfer and was registered
   afterwards with a starting balance that its balance does not contain. *)
C34_Witness ==
    /\ started[creator_roll_number] # chain[1].transactions[1].amount
    /\ Len(chain) >= 2
    /\ "N2" \in DOMAIN nodes
    /\ started["N2"] > 0
    /\ opening_balance("N2") = 0
    /\ ChainCredits(2, "N2") > 0
    /\ get_balance("N2") = ChainCredits(2, "N2") - ChainDebits(2, "N2")

(* The batches of the ledger: the pending transactions and the transactions
   of every block sealed after the genesis block. *)
Batches ==
    {pending_transactions} \cup {chain[i].transactions : i \in 2 .. Len(chain)}

(* No sender has two transactions in the batch. *)
OneEachSender(T) ==
    \A i \in 1 .. Len(T) : \A j \in 1 .. Len(T) :
        T[i].sender = T[j].sender => i = j

(* The callers gave no negative starting balance and no negative amount, and
   no sender was accepted twice between two seals. *)
WithoutBatching ==
    /\ \A x \in DOMAIN started : started[x] >= 0
    /\ \A T \in Batches :
           /\ OneEachSender(T)
           /\ \A i \in 1 .. Len(T) : T[i].amount >= 0 /\ T[i].zakat_amount >= 0

(* C35: no overdraft without batching.  In every reachable state whose
   starting balances and accepted amounts are all non-negative and in which
   no sender has had two transactions in one batch, no balance is negative. *)
C35_NoOverdraftWithoutBatching ==
    WithoutBatching => \A a \in DOMAIN balances : balances[a] >= 0

(* Without batching, two blocks were sealed, each holding a transaction
   besides the reward; the creator's balance went below the amount it sent. *)
C35_Witness ==
    /\ WithoutBatching
    /\ Len(chain) = 3
    /\ Len(chain[2].transactions) = 2
    /\ Len(chain[3].transactions) = 2
    /\ chain[2].transactions[1].sender = creator_roll_number
    /\ get_balance(creator_roll_number) < chain[2].transactions[1].amount

(* The levy that the sealed "zakat" transactions pay to an address *)
LevyPaidTo(x) ==
    SumSeq([i \in 1 .. Len(chain) |->
               SumSeq([j \in 1 .. Len(chain[i].transactions) |->
                          IF /\ chain[i].transactions[j].transaction_type = "zakat"
                             /\ chain[i].transactions[j].receiver = x
                          THEN chain[i].transactions[j].zakat_amount
                          ELSE 0])])

(* C36: the levy reaches its receiver.  The balance of Zakat_Fund is the
   total levy paid to it by the sealed transactions, and the seal of a batch
   made of one "zakat" transaction from A to R with levy L > 0 raises the
   balance of R by L (and by the reward when R seals). *)
C36_LevyReachesReceiver ==
    /\ [](get_balance(ZakatFund) = LevyPaidTo(ZakatFund))
    /\ [][(/\ last'.op = "mine"
           /\ Len(pending_transactions) = 1
           /\ pending_transactions[1].transaction_type = "zakat"
           /\ pending_transactions[1].zakat_amount > 0
           /\ pending_transactions[1].receiver # pending_transactions[1].sender) =>
              LET R == pending_transactions[1].receiver
                  reward == chain'[Len(chain')].transactions[2]
              IN  balance_of(balances', R) =
                      get_balance(R) + pending_transactions[1].zakat_amount
                      + (IF reward.receiver = R THEN reward.amount ELSE 0)]_vars

(* The stored hash of the i-th block is not the hash of its fields. *)
HashMismatch(i) == chain[i].hash # calculate_hash(chain[i])

(* C37 as stated: validate_chain() is false whenever a block of the chain,
   the genesis block included and a chain of one block included, stores a
   hash that does not recompute from its fields. *)
C37_ValidationCoversEveryBlock ==
    (\E i \in 1 .. Len(chain) : HashMismatch(i)) => ~validate_chain

(* C37, amended: validate_chain() is false whenever a block after the
   genesis block stores a hash that does not recompute from its fields.  The
   hash of the genesis block is never recomputed: when the genesis block
   alone has been tampered with, validate_chain() is false only if its
   stored hash was overwritten and a second block links to it; a changed
   field of the genesis block, and anything changed in a chain of one block,
   goes unnoticed. *)
C37_ValidationCoversLaterBlocks ==
    /\ (\E i \in 2 .. Len(chain) : HashMismatch(i)) => ~validate_chain
    /\ (tamper.active /\ tamper.index = 0) =>
           /\ HashMismatch(1)
           /\ validate_chain <=> (last.op # "hash" \/ Len(chain) = 1)

(* A field of the genesis block of a chain of three blocks was overwritten:
   its stored hash no longer recomputes and validate_chain() is true. *)
C37_Witness ==
    /\ tamper.active
    /\ tamper.index = 0
    /\ last.op = "transactions"
    /\ Len(chain) = 3
    /\ HashMismatch(1)
    /\ validate_chain

(* No call of mine_pending_transactions is under way. *)
Quiet == calls = NoCalls

(* The block b with only the first k of its transactions *)
cut_block(b, k) == [b EXCEPT !.transactions = SubSeq(@, 1, k)]

(* The number of transactions of b that its stored hash was computed over *)
hashed_length(b) == Len(b.hash.of[3])

(* The numbers of transactions, block by block, that a balance loop may
   have passed *)
AppliedLengths ==
    {k \in [2 .. Len(chain) -> 0 .. MaxChain + MaxEntries] :
        \A i \in 2 .. Len(chain) : k[i] <= Len(chain[i].transactions)}

(* What applying the first k[i] transactions of every block i after the
   genesis block makes of the balance of x *)
balance_applied(k, x) ==
    (IF x \in DOMAIN started THEN started[x] ELSE 0)
    + SumSeq([i \in 1 .. Len(chain) - 1 |->
                 Credits(SubSeq(chain[i + 1].transactions, 1, k[i + 1]), x)
                 - (IF x \in SyntheticSenders THEN 0
                    ELSE Debits(SubSeq(chain[i + 1].transactions, 1, k[i + 1]), x))])

(* C38 as stated: a transfer or gift accepted between the start and the end
   of a seal is, once both calls have returned, inside the sealed block,
   covered by its stored hash and applied to the balances, or still pending;
   validate_chain() stays true. *)
C38_SealAtomicForEnqueue ==
    Quiet =>
        /\ validate_chain
        /\ \A i \in 2 .. Len(chain) : ~HashMismatch(i)
        /\ \A x \in Accounts :
               get_balance(x) =
                   balance_applied([i \in 2 .. Len(chain) |->
                                       Len(chain[i].transactions)], x)

(* C38, amended: a transfer or gift accepted after the seal has constructed
   its block and before it clears the pending transactions is appended to
   the block itself; when the seal ends it is in the sealed block and not
   pending, so it is never dropped.  The stored hash of a block covers the
   transactions the block held at the last hash computation, a prefix of
   those it holds, and the balances are those of applying to each block a
   prefix of its transactions: a transaction accepted later than that is
   sealed unhashed (validate_chain() is then false) or unapplied. *)
C38_EnqueueDuringSeal ==
    /\ [](\A i \in 2 .. Len(chain) :
              /\ hashed_length(chain[i]) <= Len(chain[i].transactions)
              /\ chain[i].hash
                     = calculate_hash(cut_block(chain[i], hashed_length(chain[i])))
              /\ HashMismatch(i) <=>
                     hashed_length(chain[i]) < Len(chain[i].transactions))
    /\ [](Quiet => \E k \in AppliedLengths :
                       \A x \in Accounts : get_balance(x) = balance_applied(k, x))
    /\ [][(last'.op \in {"transfer", "gift"} /\ last'.ok) =>
              /\ Len(pending_transactions') = Len(pending_transactions) + 1
              /\ SubSeq(pending_transactions', 1, Len(pending_transactions))
                     = pending_transactions
              /\ calls[1].pc = "mine" =>
                     calls'[1].block.transactions = pending_transactions'
              /\ calls[1].pc \in {"apply", "clear"} =>
                     chain'[calls[1].at].transactions = pending_transactions']_vars
    /\ [][last'.op = "mine" =>
              /\ chain' = chain
              /\ chain[calls[1].at].transactions = pending_transactions
              /\ pending_transactions' = <<>>]_vars

(* Both calls have returned: the sealed block holds, after the reward, a
   transfer that its stored hash does not cover and that no balance shows. *)
C38_Witness ==
    /\ Quiet
    /\ Len(chain) = 2
    /\ Len(chain[2].transactions) = 2
    /\ chain[2].transactions[1].transaction_type = "mining_reward"
    /\ chain[2].transactions[2].transaction_type = "transfer"
    /\ hashed_length(chain[2]) = 1
    /\ ~validate_chain
    /\ chain[2].transactions[2].receiver \notin DOMAIN balances

(* C39 as stated, for the chain: when two seals interleave statement by
   statement, the chain never holds two blocks with the same index or the
   same previous hash.  (That no pending transaction is applied twice is
   measured on the balances in the amended statement.) *)
C39_ConcurrentSealsContiguous ==
    \A i \in 1 .. Len(chain) : \A j \in 1 .. Len(chain) :
        i # j =>
            /\ chain[i].index # chain[j].index
            /\ chain[i].previous_hash # chain[j].previous_hash

(* C39, amended: under interleaved seals a block carries the chain length
   and the hash of the latest block as they were when the block was
   constructed: its index is at most its position, and its previous hash is
   the stored hash of the block at the position its index names.  Two blocks
   constructed over the same chain therefore have the same index and the
   same previous hash, and validate_chain() is false of a chain that holds
   such a pair.  Each seal applies the list its block holds: the balances
   are those of applying to every block a prefix of its transactions, a
   transaction held by two blocks once for each. *)
C39_ConcurrentSeals ==
    /\ \A i \in 2 .. Len(chain) :
           /\ chain[i].index \in 1 .. i - 1
           /\ chain[i].previous_hash = chain[chain[i].index].hash
    /\ \A i \in 1 .. Len(chain) : \A j \in 1 .. Len(chain) :
           i # j =>
               /\ chain[i].index = chain[j].index
                      <=> chain[i].previous_hash = chain[j].previous_hash
               /\ chain[i].index = chain[j].index => ~validate_chain
    /\ Quiet => \E k \in AppliedLengths :
                    \A x \in Accounts : get_balance(x) = balance_applied(k, x)

(* Both seals have returned: their blocks have the same index and the same
   previous hash, both hold the transfer that was pending, and its receiver
   was credited twice. *)
C39_Witness ==
    /\ Quiet
    /\ Len(chain) = 3
    /\ chain[2].index = chain[3].index
    /\ chain[2].previous_hash = chain[3].previous_hash
    /\ chain[2].transactions[1].transaction_type = "transfer"
    /\ chain[3].transactions[1] = chain[2].transactions[1]
    /\ get_balance(chain[2].transactions[1].receiver)
           = chain[2].transactions[1].amount + chain[2].transactions[1].amount

====
